---------------------------- MODULE Spec2Model ----------------------------
(***************************************************************************)
(* Model of the Tizen video_player_videohole plugin core: one playback     *)
(* session object (MediaPlayer or PlusPlayer), the DrmManager it owns, and *)
(* the platform engines they talk to (player engine, DRM engine, GLib idle *)
(* queue) as far as the session observes them.                             *)
(*                                                                         *)
(* Every handler of the source is one action.  A handler is written as a   *)
(* function from a snapshot of the state (the record Cur) to the snapshot  *)
(* after it; calls to the platform are appended to `trace` in the order    *)
(* the code makes them, and the set F of an action names the platform      *)
(* calls that report failure during that handler.                          *)
(***************************************************************************)
EXTENDS Integers, Sequences, FiniteSets, TLC

\* ------------------------------------------------------------------ bounds
MaxHandles == 2      \* engine handles an instance may create
MaxChallenges == 2   \* challenge callbacks delivered by the DRM engine
MaxSeeks == 2        \* SeekTo calls accepted for delivery to the engine
MaxEvents == 5       \* buffering percents delivered by the engine

\* ------------------------------------------------------------- constants
NULL == 0
GARBAGE == MaxHandles + 1   \* an indeterminate, non-null handle value

Handles == 1..MaxHandles
Sessions == 1..MaxHandles
Buffers == 1..MaxChallenges

VARIABLES
  backend,             \* "media" (MediaPlayer) or "plus" (PlusPlayer)
  \* --- the player object
  player_,             \* engine handle held: NULL, GARBAGE or a handle
  is_initialized_,     \* VideoPlayer::is_initialized_
  is_interrupted_,     \* VideoPlayer::is_interrupted_
  event_sink_,         \* TRUE while a listener is attached
  event_channel_,      \* TRUE once SetUpEventChannel has run
  on_seek_completed_,  \* pending seek continuation: NULL or its id
  drm_manager_,        \* TRUE while the unique_ptr holds a DrmManager
  is_buffering_,       \* bufferingStart sent and no bufferingEnd since
  \* --- the DrmManager object (meaningful while drm_manager_)
  drm_session_,        \* DRM engine session: NULL or a session
  drm_manager_proxy_,  \* TRUE while libdrmmanager is loaded and bound
  initialized_,        \* Initialize succeeded and Finalize has not
  license_server_url_, \* "" or "url"
  challenge_callback_, \* TRUE when a delegate is set
  source_id_,          \* id of the last idle source added, 0 if none
  license_param_,      \* [param1 |-> session id, param2 |-> buffer or NULL]
  mgrGen,              \* identity of the current DrmManager object
  \* --- the platform, as far as the session observes it
  hstate,              \* per engine handle: its lifecycle state
  sess,                \* per DRM session: "none", "live", "released"
  idleq,               \* GLib idle sources pending, in dispatch order
  bufs,                \* per response buffer: "none", "alloc", "freed"
  emeCb,               \* the registered challenge callback: session, manager
  seeks,               \* seeks the engine accepted, completion not delivered
  cbpc,                \* position of the engine thread inside its callback
  cbCur,               \* the continuation that thread invoked
  seekpc,              \* the continuation a SeekTo in progress has stored
  chpc,                \* the engine thread inside OnChallengeData, if any
  sipc,                \* per thread: its position in SendInitialized
  events,              \* notifications sent to the event channel, in order
  \* --- observers
  trace,               \* platform calls of the last handler, in order
  lastOp,              \* name of the last handler
  lastResult,          \* "ok", "error" (typed failure raised) or a status
  lastInput,           \* the input that distinguishes the last handler run
  lastOut,             \* what the last handler returned or wrote
  probe,               \* what the engine answered to the last handler's queries
  percents,            \* buffering percents the engine delivered, in order
  slots,               \* per private engine function: its pointer is bound
  createdOnce,         \* a Create on this instance created an engine handle
  faults,              \* illegal uses of platform resources seen so far
  challengeLog,        \* per challenge: [sid, buf, outcome]
  installLog,          \* per install attempt: [txn, sid, buf]
  cbStatus,            \* per seek continuation: "unused", "accepted", "rejected"
  cbInvoked            \* per seek continuation: number of invocations

vars == <<backend, player_, is_initialized_, is_interrupted_, event_sink_,
          event_channel_, on_seek_completed_, drm_manager_, drm_session_,
          drm_manager_proxy_, initialized_, license_server_url_,
          challenge_callback_, source_id_, license_param_, mgrGen, hstate,
          sess, idleq, bufs, emeCb, seeks, cbpc, cbCur, chpc, trace, lastOp,
          lastResult, lastInput, createdOnce, faults, challengeLog,
          installLog, cbStatus, cbInvoked, is_buffering_, sipc, events,
          lastOut, probe, percents, slots, seekpc>>

\* The private engine functions InitMediaPlayerProxy resolves, in the order
\* it resolves them.
ProxySymbols ==
  <<"player_set_ecore_wl_display", "player_set_drm_handle",
    "player_set_drm_init_complete_cb", "player_set_drm_init_data_cb">>

ProxySymbolSet == {ProxySymbols[i] : i \in DOMAIN ProxySymbols}

\* What the engine knows of the media: native size, display rotation in
\* degrees, duration, playing time.
NoVideo == [w |-> 0, h |-> 0, rot |-> 0, duration |-> 0, position |-> 0]

\* Nothing returned and no output parameter written.
NoOut == [written |-> FALSE, value |-> 0, width |-> 0, height |-> 0]

\* No thread is inside SendInitialized.
NoSend == [listen |-> "idle", engine |-> "idle", ret |-> TRUE]

\* The state as one record; `thrown` is the VideoPlayerError in flight and
\* `ret` the value the last callee returned.
Cur ==
  [player_ |-> player_, is_initialized_ |-> is_initialized_,
   is_interrupted_ |-> is_interrupted_, event_sink_ |-> event_sink_,
   on_seek_completed_ |-> on_seek_completed_, drm_manager_ |-> drm_manager_,
   drm_session_ |-> drm_session_, drm_manager_proxy_ |-> drm_manager_proxy_,
   initialized_ |-> initialized_, license_server_url_ |-> license_server_url_,
   challenge_callback_ |-> challenge_callback_, source_id_ |-> source_id_,
   license_param_ |-> license_param_, mgrGen |-> mgrGen, hstate |-> hstate,
   sess |-> sess, idleq |-> idleq, bufs |-> bufs, seeks |-> seeks,
   cbpc |-> cbpc, createdOnce |-> createdOnce, faults |-> faults,
   challengeLog |-> challengeLog, installLog |-> installLog,
   cbInvoked |-> cbInvoked, cbStatus |-> cbStatus, cbCur |-> cbCur,
   chpc |-> chpc, emeCb |-> emeCb, event_channel_ |-> event_channel_,
   is_buffering_ |-> is_buffering_, sipc |-> sipc, events |-> events,
   percents |-> percents, slots |-> slots, seekpc |-> seekpc,
   video |-> NoVideo, out |-> NoOut,
   trace |-> <<>>, thrown |-> FALSE, ret |-> TRUE]

\* The engine calls that read a property of the media.
QueryCalls ==
  {"get_duration", "get_video_size", "get_display_rotation",
   "player_get_play_position", "player_get_duration", "player_get_video_size",
   "player_get_display_rotation", "GetPlayingTime", "GetDuration",
   "GetVideoSize"}

Commit(s, op, input, result) ==
  /\ player_' = s.player_
  /\ is_initialized_' = s.is_initialized_
  /\ is_interrupted_' = s.is_interrupted_
  /\ event_sink_' = s.event_sink_
  /\ on_seek_completed_' = s.on_seek_completed_
  /\ drm_manager_' = s.drm_manager_
  /\ drm_session_' = s.drm_session_
  /\ drm_manager_proxy_' = s.drm_manager_proxy_
  /\ initialized_' = s.initialized_
  /\ license_server_url_' = s.license_server_url_
  /\ challenge_callback_' = s.challenge_callback_
  /\ source_id_' = s.source_id_
  /\ license_param_' = s.license_param_
  /\ mgrGen' = s.mgrGen
  /\ hstate' = s.hstate
  /\ sess' = s.sess
  /\ idleq' = s.idleq
  /\ bufs' = s.bufs
  /\ seeks' = s.seeks
  /\ cbpc' = s.cbpc
  /\ createdOnce' = s.createdOnce
  /\ faults' = s.faults
  /\ challengeLog' = s.challengeLog
  /\ installLog' = s.installLog
  /\ cbInvoked' = s.cbInvoked
  /\ cbStatus' = s.cbStatus
  /\ cbCur' = s.cbCur
  /\ chpc' = s.chpc
  /\ emeCb' = s.emeCb
  /\ event_channel_' = s.event_channel_
  /\ is_buffering_' = s.is_buffering_
  /\ sipc' = s.sipc
  /\ events' = s.events
  /\ percents' = s.percents
  /\ slots' = s.slots
  /\ seekpc' = s.seekpc
  /\ probe' = IF \E i \in DOMAIN s.trace : s.trace[i][1] \in QueryCalls
            THEN s.video ELSE NoVideo
  /\ lastOut' = s.out
  /\ trace' = s.trace
  /\ lastOp' = op
  /\ lastInput' = input
  /\ lastResult' = result
  /\ backend' = backend

\* ----------------------------------------------------------------- helpers
\* A platform call: logged with its argument and whether it succeeded.
Call(s, name, arg, F) ==
  [s EXCEPT !.trace = Append(@, <<name, arg, name \notin F>>)]

\* throw VideoPlayerError(...)
Throw(s) == [s EXCEPT !.thrown = TRUE]

Fault(s, what) == [s EXCEPT !.faults = @ \cup {what}]

\* A platform call whose failure the code turns into a VideoPlayerError.
Checked(s, name, arg, F) ==
  IF s.thrown THEN s
  ELSE IF name \in F THEN Throw(Call(s, name, arg, F))
  ELSE Call(s, name, arg, F)

RECURSIVE CheckedAll(_, _, _, _)
CheckedAll(s, names, arg, F) ==
  IF names = <<>> THEN s
  ELSE CheckedAll(Checked(s, Head(names), arg, F), Tail(names), arg, F)

\* if (!callee(...)) throw VideoPlayerError(...)
ThrowUnlessRet(s) == IF s.ret THEN s ELSE Throw(s)

Names(tr) == {tr[i][1] : i \in DOMAIN tr}

\* Positions of the calls with one of the given names in a trace.
Places(tr, names) == {i \in DOMAIN tr : tr[i][1] \in names}

RemoveSource(q, id) == SelectSeq(q, LAMBDA e : e.id # id)

FreshHandle(s) ==
  IF \E h \in Handles : s.hstate[h] = "none"
  THEN CHOOSE h \in Handles :
         s.hstate[h] = "none" /\ \A g \in Handles : s.hstate[g] = "none" => h <= g
  ELSE NULL

FreshSession(s) ==
  IF \E x \in Sessions : s.sess[x] = "none"
  THEN CHOOSE x \in Sessions :
         s.sess[x] = "none" /\ \A y \in Sessions : s.sess[y] = "none" => x <= y
  ELSE NULL

\* The player engine destroying a handle the caller passes.
EngineDestroy(s, h) ==
  IF h \in Handles
  THEN IF s.hstate[h] = "destroyed"
       THEN Fault(s, "double_destroy")
       ELSE [s EXCEPT !.hstate[h] = "destroyed",
                      !.seeks = SelectSeq(@, LAMBDA e : e.h # h)]
  ELSE Fault(s, "invalid_handle")

\* The state the player engine reports for a handle.
GetState(s, h) ==
  IF h \notin Handles THEN "none"
  ELSE IF s.hstate[h] = "destroyed" THEN "none"
  ELSE IF s.hstate[h] = "preparing" THEN "idle"
  ELSE IF s.hstate[h] = "sourced" THEN "source_ready"
  ELSE s.hstate[h]

\* The order of the engine states, as the comparisons of PlusPlayer use it.
StateRank(st) ==
  CASE st = "none" -> 0
    [] st = "idle" -> 1
    [] st = "source_ready" -> 2
    [] st = "ready" -> 3
    [] st = "playing" -> 4
    [] st = "paused" -> 5

\* The handle names a player the engine holds.
Live(s, h) == h \in Handles /\ s.hstate[h] \notin {"none", "destroyed"}

\* An engine call on the handle the player holds succeeds unless the engine
\* reports an error or the handle names no player.
EngineOk(s, name, F) == name \notin F /\ Live(s, s.player_)

\* An engine call on the handle the player holds; `ret` is its success.
EngineCall(s, name, F) ==
  [(IF s.player_ \notin Handles \cup {NULL}
    THEN Fault(Call(s, name, s.player_, F \cup {name}), "invalid_handle")
    ELSE Call(s, name, s.player_,
              IF EngineOk(s, name, F) THEN F ELSE F \cup {name}))
     EXCEPT !.ret = EngineOk(s, name, F)]

\* The engine starting or resuming playback: it refuses outside the states
\* ready and paused.
EngineStart(s, name, F) ==
  IF GetState(s, s.player_) \in {"ready", "paused"}
  THEN IF EngineOk(s, name, F)
       THEN [EngineCall(s, name, F) EXCEPT !.hstate[s.player_] = "playing"]
       ELSE EngineCall(s, name, F)
  ELSE EngineCall(s, name, F \cup {name})

\* The engine pausing playback: it refuses outside the state playing.
EnginePause(s, name, F) ==
  IF GetState(s, s.player_) = "playing"
  THEN IF EngineOk(s, name, F)
       THEN [EngineCall(s, name, F) EXCEPT !.hstate[s.player_] = "paused"]
       ELSE EngineCall(s, name, F)
  ELSE EngineCall(s, name, F \cup {name})

AtLeastReady(st) == st \in {"ready", "playing", "paused"}

\* =========================================================== DrmManager
EmptyParam == [param1 |-> NULL, param2 |-> NULL]

\* No challenge callback registered with the DRM engine.
NoCallback == [sess |-> NULL, gen |-> 0, armed |-> FALSE]

\* The engine thread is not inside OnChallengeData.
NoChallenge == [active |-> FALSE, gen |-> 0, txn |-> 0, path |-> "none",
                data |-> NULL, len |-> 0, status |-> TRUE]

\* ReleaseDrmSession: if (source_id_ > 0) g_source_remove(source_id_);
\* source_id_ = 0
RemoveIdleSource(s, F) ==
  IF s.source_id_ > 0
  THEN [(IF \E i \in DOMAIN s.idleq : s.idleq[i].id = s.source_id_
         THEN Call(s, "g_source_remove", s.source_id_, F)
         ELSE Fault(Call(s, "g_source_remove", s.source_id_, F),
                    "remove_stale_source"))
          EXCEPT !.idleq = RemoveSource(@, s.source_id_), !.source_id_ = 0]
  ELSE s

\* ReleaseDrmSession: if (initialized_) DMGRSetData(.., "Finalize", ..)
FinalizeSession(s, F) ==
  IF ~s.initialized_ THEN s
  ELSE IF "Finalize" \in F THEN Call(s, "Finalize", s.drm_session_, F)
  ELSE [Call(s, "Finalize", s.drm_session_, F)
          EXCEPT !.initialized_ = FALSE,
                 !.emeCb.armed = @ /\ s.emeCb.sess # s.drm_session_]

\* The DRM engine releasing a session the caller passes.
EngineRelease(s, x) ==
  IF s.sess[x] # "live" THEN Fault(s, "double_release")
  ELSE [s EXCEPT !.sess[x] = "released"]

\* A release that keeps the handle of the session it released.
ReleaseEngineSession_KeepsHandle(s, F) ==
  EngineRelease(Call(s, "DMGRReleaseDRMSession", s.drm_session_, F),
                s.drm_session_)

\* ReleaseDrmSession: ret = DMGRReleaseDRMSession(drm_session_);
\* if (ret == DM_ERROR_NONE) drm_session_ = nullptr
ReleaseEngineSession(s, F) ==
  IF "DMGRReleaseDRMSession" \in F
  THEN IF s.sess[s.drm_session_] # "live"
       THEN Fault(Call(s, "DMGRReleaseDRMSession", s.drm_session_, F),
                  "double_release")
       ELSE Call(s, "DMGRReleaseDRMSession", s.drm_session_, F)
  ELSE [EngineRelease(Call(s, "DMGRReleaseDRMSession", s.drm_session_, F),
                      s.drm_session_)
          EXCEPT !.drm_session_ = NULL]

\* A release that gives up when Finalize fails.
ReleaseIfSession_FinalizeFirst(s, F) ==
  IF s.drm_session_ = NULL THEN s
  ELSE IF s.initialized_ /\ "Finalize" \in F THEN FinalizeSession(s, F)
  ELSE ReleaseEngineSession(FinalizeSession(s, F), F)

\* ReleaseDrmSession: if (drm_session_) { ... }
ReleaseIfSession(s, F) ==
  IF s.drm_session_ = NULL THEN s
  ELSE ReleaseEngineSession(FinalizeSession(s, F), F)

\* DrmManager::ReleaseDrmSession
ReleaseDrmSession(s0, F) == ReleaseIfSession(RemoveIdleSource(s0, F), F)

\* DrmManager::~DrmManager
DrmManagerDestroy(s0, F) ==
  IF s0.drm_manager_proxy_
  THEN [Call(ReleaseDrmSession(s0, F), "CloseDrmManagerProxy", 0, F)
          EXCEPT !.drm_manager_proxy_ = FALSE]
  ELSE ReleaseDrmSession(s0, F)

\* DrmManager::DrmManager: the library calls of the constructor
DrmManagerLoad(s, F) ==
  IF "OpenDrmManagerProxy" \in F THEN Call(s, "OpenDrmManagerProxy", 0, F)
  ELSE IF "InitDrmManagerProxy" \in F
  THEN Call(Call(Call(s, "OpenDrmManagerProxy", 0, F),
                 "InitDrmManagerProxy", 0, F), "CloseDrmManagerProxy", 0, F)
  ELSE Call(Call(s, "OpenDrmManagerProxy", 0, F), "InitDrmManagerProxy", 0, F)

\* std::unique_ptr<DrmManager>::operator=: the object held is destroyed
DrmManagerReset(s, F) ==
  IF s.drm_manager_ THEN DrmManagerDestroy(s, F) ELSE s

\* DrmManager::DrmManager: the fields of the new object
DrmManagerNew(s, F) ==
  [s EXCEPT !.drm_manager_ = TRUE, !.drm_session_ = NULL,
            !.drm_manager_proxy_ = ("OpenDrmManagerProxy" \notin F
                                    /\ "InitDrmManagerProxy" \notin F),
            !.initialized_ = FALSE, !.license_server_url_ = "",
            !.challenge_callback_ = FALSE, !.source_id_ = 0,
            !.license_param_ = EmptyParam, !.mgrGen = @ + 1]

\* drm_manager_ = std::make_unique<DrmManager>(): the new object is built,
\* then the one the pointer held is destroyed.
MakeDrmManager(s0, F) ==
  DrmManagerNew(DrmManagerReset(DrmManagerLoad(s0, F), F), F)

\* CreateDrmSession: DMGRSetData(drm_session_, "error_event_callback", ..)
SetErrorCallback(s, F) ==
  IF "error_event_callback" \in F
  THEN [ReleaseDrmSession(Call(s, "error_event_callback", s.drm_session_, F), F)
          EXCEPT !.ret = FALSE]
  ELSE [Call(s, "error_event_callback", s.drm_session_, F) EXCEPT !.ret = TRUE]

\* CreateDrmSession: drm_session_ = DMGRCreateDRMSession(..)
CreateEngineSession(s, F) ==
  IF "DMGRCreateDRMSession" \in F \/ FreshSession(s) = NULL
  THEN [Call(s, "DMGRCreateDRMSession", NULL, F \cup {"DMGRCreateDRMSession"})
          EXCEPT !.drm_session_ = NULL, !.ret = FALSE]
  ELSE SetErrorCallback(
         [Call(s, "DMGRCreateDRMSession", FreshSession(s), F)
            EXCEPT !.drm_session_ = FreshSession(s),
                   !.sess[FreshSession(s)] = "live"], F)

\* DrmManager::CreateDrmSession; ret is its return value
CreateDrmSession(s0, local_mode, F) ==
  IF ~s0.drm_manager_proxy_ THEN [s0 EXCEPT !.ret = FALSE]
  ELSE IF local_mode
  THEN CreateEngineSession(Call(s0, "DMGRSetDRMLocalMode", 0, F), F)
  ELSE CreateEngineSession(s0, F)

\* DrmManager::GetDrmHandle
GetDrmHandle(s0, F) ==
  IF s0.drm_session_ # NULL
  THEN [Call(s0, "drm_handle", s0.drm_session_, F)
          EXCEPT !.ret = "drm_handle" \notin F]
  ELSE [s0 EXCEPT !.ret = FALSE]

\* SetChallenge(media_url): DMGRSetData(drm_session_, "Initialize", nullptr)
InitializeSession(s, F) ==
  IF "Initialize" \in F
  THEN [Call(s, "Initialize", s.drm_session_, F) EXCEPT !.ret = FALSE]
  ELSE [Call(s, "Initialize", s.drm_session_, F)
          EXCEPT !.initialized_ = TRUE, !.ret = TRUE, !.emeCb.armed = TRUE]

\* A SetChallenge that goes on to Initialize whatever the manifest step
\* returned.
SetManifest_Unchecked(s, F) ==
  InitializeSession(Call(s, "set_playready_manifest", s.drm_session_, F), F)

\* SetChallenge(media_url): DMGRSetData(.., "set_playready_manifest", ..)
SetManifest(s, F) ==
  IF "set_playready_manifest" \in F
  THEN [Call(s, "set_playready_manifest", s.drm_session_, F)
          EXCEPT !.ret = FALSE]
  ELSE InitializeSession(
         Call(s, "set_playready_manifest", s.drm_session_, F), F)

\* int DrmManager::SetChallenge(media_url); ret is (status = DM_ERROR_NONE)
SetChallengeUrl(s0, F) ==
  IF s0.drm_session_ = NULL THEN [s0 EXCEPT !.ret = FALSE]
  ELSE IF "eme_request_key_callback" \in F
  THEN [Call(s0, "eme_request_key_callback", s0.drm_session_, F)
          EXCEPT !.ret = FALSE]
  ELSE SetManifest(
         [Call(s0, "eme_request_key_callback", s0.drm_session_, F)
            EXCEPT !.emeCb = [sess |-> s0.drm_session_, gen |-> s0.mgrGen,
                              armed |-> FALSE]], F)

\* bool DrmManager::SetChallenge(media_url, license_server_url)
SetChallenge_LicenseServer(s0, url, F) ==
  SetChallengeUrl([s0 EXCEPT !.license_server_url_ = url], F)

\* bool DrmManager::SetChallenge(media_url, callback)
SetChallenge_Callback(s0, F) ==
  SetChallengeUrl([s0 EXCEPT !.challenge_callback_ = TRUE], F)

\* SetDrm in both backends: if (license_server_url.empty()) the delegate
\* variant of SetChallenge, else the license server variant
SetChallenge(s0, url, F) ==
  IF url # "" THEN SetChallenge_LicenseServer(s0, url, F)
  ELSE SetChallenge_Callback(s0, F)

\* DrmManager::UpdatePsshData; ret is (status = DM_ERROR_NONE)
UpdatePsshData(s0, F) ==
  IF s0.drm_session_ = NULL THEN [s0 EXCEPT !.ret = FALSE]
  ELSE [Call(s0, "update_pssh_data", s0.drm_session_, F)
          EXCEPT !.ret = "update_pssh_data" \notin F]

\* DrmManager::SecurityInitCompleteCB: security_param.param2 = drm_session_;
\* return DMGRSecurityInitCompleteCB(.., &security_param)
SecurityInitCompleteCB(s0, F) ==
  [Call(s0, "DMGRSecurityInitCompleteCB", s0.drm_session_, F)
     EXCEPT !.ret = "DMGRSecurityInitCompleteCB" \notin F]

\* ===================================================== media player proxy
\* InitMediaPlayerProxy past the test of the handle: each pointer is assigned
\* what dlsym returns, and the first null one ends the function.
RECURSIVE BindSymbols(_, _, _)
BindSymbols(s, names, R) ==
  IF names = <<>> THEN [s EXCEPT !.ret = TRUE]
  ELSE IF Head(names) \in R
  THEN BindSymbols([Call(s, "dlsym", Head(names), {})
                      EXCEPT !.slots[Head(names)] = TRUE], Tail(names), R)
  ELSE [Call(s, "dlsym", Head(names), {"dlsym"})
          EXCEPT !.slots[Head(names)] = FALSE, !.ret = FALSE]

\* InitMediaPlayerProxy (and InitMediaPlayer, the same code); R is the set
\* of functions the library exports.
InitMediaPlayerProxy(s0, handle, R) ==
  IF handle = NULL THEN [s0 EXCEPT !.ret = FALSE]
  ELSE BindSymbols(s0, ProxySymbols, R)

\* ====================================================== shared by backends
\* A SetDrm that does not look at what SetChallenge returns.
SetDrmChallenge_Unchecked(s0, url, F) ==
  IF s0.thrown THEN s0 ELSE SetChallenge(s0, url, F)

\* The last part of SetDrm in both backends: hand the license source to the
\* DrmManager and raise when SetChallenge reports failure.
SetDrmChallenge(s0, url, F) ==
  IF s0.thrown THEN s0 ELSE ThrowUnlessRet(SetChallenge(s0, url, F))

\* SetDrm in both backends: if (!drm_manager_->GetDrmHandle(..)) throw
SetDrmHandle(s, F) ==
  IF ~s.ret THEN Throw(s) ELSE ThrowUnlessRet(GetDrmHandle(s, F))

\* The first part of SetDrm in both backends: a fresh DrmManager, its session
\* and the session's handle; each failure raises.
SetDrmSession(s0, local_mode, F) ==
  SetDrmHandle(CreateDrmSession(MakeDrmManager(s0, F), local_mode, F), F)

\* A notification handed to the event channel; `delivered` tells whether a
\* listener was attached to take it.
Notification(s, name, value, width, height) ==
  [event |-> name, value |-> value, width |-> width, height |-> height,
   delivered |-> s.event_sink_]

Emit(s, n) == [s EXCEPT !.events = Append(@, n)]

\* event_sink_->Error(code, message)
EmitError(s, code) == Emit(s, Notification(s, code, 0, 0, 0))

Rotations == {0, 90, 180, 270}

\* A size reported without looking at the rotation.
ReportedSize_NoSwap(v) == [width |-> v.w, height |-> v.h]

\* if (rotation == PLAYER_DISPLAY_ROTATION_90 ||
\*     rotation == PLAYER_DISPLAY_ROTATION_270) std::swap(width, height)
ReportedSize(v) ==
  IF v.rot \in {90, 270} THEN [width |-> v.h, height |-> v.w]
  ELSE [width |-> v.w, height |-> v.h]

\* SendInitialized: the three queries, in order, up to the first that makes
\* the function return.
SendInitialized_Queries(s, F) ==
  IF "get_duration" \in F THEN Call(s, "get_duration", s.player_, F)
  ELSE IF "get_video_size" \in F
  THEN Call(Call(s, "get_duration", s.player_, F),
            "get_video_size", s.player_, F)
  ELSE Call(Call(Call(s, "get_duration", s.player_, F),
                 "get_video_size", s.player_, F),
            "get_display_rotation", s.player_, F)

\* SendInitialized: is_initialized_ = true; event_sink_->Success({event:
\* initialized, duration, width, height})
SendInitialized_Success(s, size) ==
  Emit([s EXCEPT !.is_initialized_ = TRUE],
       Notification(s, "initialized", s.video.duration, size.width,
                    size.height))

\* SendInitialized past its guard
SendInitialized_Body(s, F) ==
  IF "get_duration" \in F
  THEN EmitError(SendInitialized_Queries(s, F), "player_get_duration failed")
  ELSE IF "get_video_size" \in F
  THEN EmitError(SendInitialized_Queries(s, F), "player_get_video_size failed")
  ELSE IF "get_display_rotation" \in F
  THEN SendInitialized_Success(
         EmitError(SendInitialized_Queries(s, F),
                   "player_get_display_rotation failed"),
         [width |-> s.video.w, height |-> s.video.h])
  ELSE SendInitialized_Success(SendInitialized_Queries(s, F),
                               ReportedSize(s.video))

\* if (!is_initialized_ && !is_interrupted_ && event_sink_)
SendInitialized_Guard(s) ==
  ~s.is_initialized_ /\ ~s.is_interrupted_ /\ s.event_sink_

\* VideoPlayer::SendInitialized
SendInitialized(s0, F) ==
  IF SendInitialized_Guard(s0) THEN SendInitialized_Body(s0, F) ELSE s0

\* The on-listen handler up to the call of Initialize: event_sink_ =
\* std::move(events); player_get_state(player_, &state)
Initialize_GetState(s0, F) ==
  Call([s0 EXCEPT !.event_sink_ = TRUE], "player_get_state", s0.player_, F)

\* if (ret == PLAYER_ERROR_NONE) if (state == PLAYER_STATE_READY &&
\* !is_initialized_)
Initialize_Ready(s0, F) ==
  /\ "player_get_state" \notin F
  /\ GetState(s0, s0.player_) = "ready"
  /\ ~s0.is_initialized_

\* VideoPlayer::Initialize, run when a listener attaches
Initialize(s0, F) ==
  IF Initialize_Ready(s0, F)
  THEN SendInitialized(Initialize_GetState(s0, F), F)
  ELSE Initialize_GetState(s0, F)

\* The engine finishing (or failing) the preparation of a handle before it
\* calls OnPrepared.
EnginePrepared(s0, h, ret) ==
  IF s0.hstate[h] \in {"preparing", "sourced"}
  THEN [s0 EXCEPT !.hstate[h] = IF ret THEN "ready" ELSE "idle"]
  ELSE s0

\* MediaPlayer::OnPrepared and PlusPlayer::OnPrepared, with the engine's
\* move to the ready state that precedes them.
OnPrepared(s0, h, ret, F) ==
  IF ~s0.is_initialized_ /\ ret
  THEN SendInitialized(EnginePrepared(s0, h, ret), F)
  ELSE EnginePrepared(s0, h, ret)

\* The on-listen handler up to the guard of SendInitialized.
Initialize_Test(s0, F) ==
  [Initialize_GetState(s0, F) EXCEPT
     !.sipc.listen = IF Initialize_Ready(s0, F)
                        /\ SendInitialized_Guard(Initialize_GetState(s0, F))
                     THEN "send" ELSE "idle"]

\* The engine thread has changed the state of the handle and is about to
\* call OnPrepared.
EnginePrepared_Call(s0, h, ret) ==
  [EnginePrepared(s0, h, ret) EXCEPT !.sipc.engine = "called",
                                     !.sipc.ret = ret]

\* OnPrepared up to the guard of SendInitialized.
OnPrepared_Test(s0) ==
  [s0 EXCEPT
     !.sipc.engine = IF ~s0.is_initialized_ /\ s0.sipc.ret
                        /\ SendInitialized_Guard(s0)
                     THEN "send" ELSE "idle"]

\* SendInitialized past its guard, on the thread that passed it.
SendInitialized_Send(s0, thread, F) ==
  [SendInitialized_Body(s0, F) EXCEPT !.sipc[thread] = "idle"]

\* Dispose in both backends: if (drm_manager_) ReleaseDrmSession(); the call
\* is logged with the engine handle the player holds at that moment.
DisposeDrm(s, F) ==
  IF s.drm_manager_
  THEN ReleaseDrmSession(Call(s, "ReleaseDrmSession", s.player_, F), F)
  ELSE s

\* ============================================================ MediaPlayer
MediaCallbackSetters ==
  <<"player_set_uri", "player_set_display_visible", "player_set_buffering_cb",
    "player_set_completed_cb", "player_set_interrupted_cb",
    "player_set_error_cb", "player_set_subtitle_updated_cb">>

\* MediaPlayer::SetDrm: the three engine bindings of the DRM handle
MediaPlayer_BindDrm(s, F) ==
  CheckedAll(s, <<"player_set_drm_handle", "player_set_drm_init_complete_cb",
                  "player_set_drm_init_data_cb">>, s.player_, F)

\* MediaPlayer::SetDrm
MediaPlayer_SetDrm(s0, url, F) ==
  SetDrmChallenge(MediaPlayer_BindDrm(SetDrmSession(s0, FALSE, F), F), url, F)

\* MediaPlayer::SetDisplay: the window geometry read through libecore_wl2
MediaPlayer_WindowGeometry(s, F) ==
  IF s.thrown THEN s
  ELSE IF "dlopen_ecore_wl2" \in F THEN Checked(s, "dlopen_ecore_wl2", 0, F)
  ELSE IF "dlsym_ecore_wl2" \in F
  THEN Throw(Call(Call(Call(s, "dlopen_ecore_wl2", 0, F),
                       "dlsym_ecore_wl2", 0, F), "dlclose_ecore_wl2", 0, F))
  ELSE Call(Call(Call(Call(s, "dlopen_ecore_wl2", 0, F),
                      "dlsym_ecore_wl2", 0, F),
                 "ecore_wl2_window_geometry_get", 0, F),
            "dlclose_ecore_wl2", 0, F)

\* MediaPlayer::SetDisplay
MediaPlayer_SetDisplay(s0, F) ==
  CheckedAll(MediaPlayer_WindowGeometry(s0, F),
             <<"player_set_ecore_wl_display", "player_set_display_mode">>,
             s0.player_, F)

\* MediaPlayer::Create: player_create(&player_)
MediaPlayer_CreateHandle(s, F) ==
  IF "player_create" \in F THEN Checked(s, "player_create", NULL, F)
  ELSE [Call(s, "player_create", FreshHandle(s), F)
          EXCEPT !.player_ = FreshHandle(s), !.hstate[FreshHandle(s)] = "idle",
                 !.createdOnce = TRUE]

\* MediaPlayer::Create: OpenMediaPlayerProxy and InitMediaPlayerProxy
MediaPlayer_LoadProxy(s, F) ==
  IF s.thrown THEN s
  ELSE IF "OpenMediaPlayerProxy" \in F
  THEN Checked(s, "OpenMediaPlayerProxy", 0, F)
  ELSE IF "InitMediaPlayerProxy" \in F
  THEN Throw(Call(Call(Call(s, "OpenMediaPlayerProxy", 0, F),
                       "InitMediaPlayerProxy", 0, F),
                  "CloseMediaPlayerProxy", 0, F))
  ELSE Call(Call(s, "OpenMediaPlayerProxy", 0, F), "InitMediaPlayerProxy", 0, F)

\* MediaPlayer::Create: if (drm_type != 0) SetDrm(...)
MediaPlayer_CreateDrm(s, drm_type, url, F) ==
  IF s.thrown \/ drm_type = 0 THEN s ELSE MediaPlayer_SetDrm(s, url, F)

\* MediaPlayer::Create: CloseMediaPlayerProxy(player_proxy_)
MediaPlayer_CloseProxy(s, F) ==
  IF s.thrown THEN s ELSE Call(s, "CloseMediaPlayerProxy", 0, F)

\* MediaPlayer::Create: the display area, the uri and the engine callbacks
MediaPlayer_Configure(s, F) ==
  CheckedAll(Checked(s, "player_set_display_roi_area", s.player_, F),
             MediaCallbackSetters, s.player_, F)

\* MediaPlayer::Create: player_prepare_async, the player id, the event channel
MediaPlayer_Prepare(s, F) ==
  IF s.thrown THEN s
  ELSE IF "player_prepare_async" \in F
  THEN Checked(s, "player_prepare_async", s.player_, F)
  ELSE [Call(Call(s, "player_prepare_async", s.player_, F),
             "SetUpEventChannel", 0, F)
          EXCEPT !.hstate[s.player_] = "preparing", !.event_channel_ = TRUE]

\* MediaPlayer::Create
MediaPlayer_Create(s0, drm_type, url, F) ==
  IF s0.player_ # NULL THEN Throw(s0)
  ELSE MediaPlayer_Prepare(
         MediaPlayer_Configure(
           MediaPlayer_CloseProxy(
             MediaPlayer_SetDisplay(
               MediaPlayer_CreateDrm(
                 MediaPlayer_LoadProxy(MediaPlayer_CreateHandle(s0, F), F),
                 drm_type, url, F), F), F), F), F)

\* MediaPlayer::Dispose: if (is_initialized_) player_unprepare(player_)
MediaPlayer_Unprepare(s, F) ==
  IF s.is_initialized_
  THEN [Call(s, "player_unprepare", s.player_, F)
          EXCEPT !.is_initialized_ = FALSE]
  ELSE s

\* MediaPlayer::Dispose: if (player_) { ... player_destroy(player_) ... }
MediaPlayer_DisposeEngine(s, F) ==
  IF s.player_ = NULL THEN s
  ELSE [EngineDestroy(Call(MediaPlayer_Unprepare(s, F), "player_destroy",
                           s.player_, F), s.player_)
          EXCEPT !.player_ = NULL]

\* A Dispose that releases the DRM session before the engine handle.
MediaPlayer_Dispose_DrmFirst(s0, F) ==
  MediaPlayer_DisposeEngine(DisposeDrm(s0, F), F)

\* The member MediaPlayer::player_proxy_: initialised to nullptr and never
\* assigned, because Create keeps the handle it opens in a local variable of
\* the same name.
player_proxy_ == NULL

\* MediaPlayer::Dispose: if (player_proxy_) { CloseMediaPlayerProxy(
\* player_proxy_); player_proxy_ = nullptr; }
MediaPlayer_DisposeProxy(s, F) ==
  IF player_proxy_ # NULL
  THEN Call(s, "CloseMediaPlayerProxy", player_proxy_, F)
  ELSE s

\* MediaPlayer::Dispose
MediaPlayer_Dispose(s0, F) ==
  DisposeDrm(MediaPlayer_DisposeProxy(MediaPlayer_DisposeEngine(s0, F), F), F)

\* ============================================================= PlusPlayer
\* PlusPlayer::SetDrm: PlusPlayerProxy::SetDrm(player_, property)
PlusPlayer_BindDrm(s, F) ==
  IF s.thrown THEN s ELSE Call(s, "SetDrm", s.player_, {})

\* PlusPlayer::SetDrm
PlusPlayer_SetDrm(s0, url, F) ==
  SetDrmChallenge(PlusPlayer_BindDrm(SetDrmSession(s0, TRUE, F), F), url, F)

\* PlusPlayer::SetDisplay: GetSurfaceId of the window
PlusPlayer_SurfaceId(s, F) ==
  IF s.thrown THEN s ELSE Call(s, "GetSurfaceId", s.player_, {})

\* PlusPlayer::SetDisplay
PlusPlayer_SetDisplay(s0, F) ==
  CheckedAll(PlusPlayer_SurfaceId(
               CheckedAll(s0, <<"screen.width", "screen.height">>, 0, F), F),
             <<"SetDisplay", "SetDisplayMode">>, s0.player_, F)

\* PlusPlayer::Create: player_ = instance.CreatePlayer()
PlusPlayer_CreateHandle(s, F) ==
  IF "CreatePlayer" \in F
  THEN [Checked(s, "CreatePlayer", NULL, F) EXCEPT !.player_ = NULL]
  ELSE [Call(s, "CreatePlayer", FreshHandle(s), F)
          EXCEPT !.player_ = FreshHandle(s), !.hstate[FreshHandle(s)] = "idle",
                 !.createdOnce = TRUE]

\* PlusPlayer::Create: SetAppId and RegisterListener
PlusPlayer_Register(s, F) ==
  IF s.thrown THEN s
  ELSE Call(Call(s, "SetAppId", s.player_, {}),
            "RegisterListener", s.player_, {})

\* PlusPlayer::Create: if (drm_type != 0) SetDrm(...)
PlusPlayer_CreateDrm(s, drm_type, url, F) ==
  IF s.thrown \/ drm_type = 0 THEN s ELSE PlusPlayer_SetDrm(s, url, F)

\* PlusPlayer::Create: PrepareAsync, the player id, the event channel
PlusPlayer_Prepare(s, F) ==
  IF s.thrown THEN s
  ELSE IF "PrepareAsync" \in F THEN Checked(s, "PrepareAsync", s.player_, F)
  ELSE [Call(Call(s, "PrepareAsync", s.player_, F), "SetUpEventChannel", 0, F)
          EXCEPT !.hstate[s.player_] = "preparing", !.event_channel_ = TRUE]

\* PlusPlayer::Create: Open and app_manager_get_app_id
PlusPlayer_Open(s, F) ==
  CheckedAll(s, <<"Open", "app_manager_get_app_id">>, s.player_, F)

\* PlusPlayer::SetDisplayRoi, called by Create with (0, 0, 1, 1) and by the
\* embedder afterwards
PlusPlayer_SetDisplayRoi(s, F) ==
  IF s.thrown THEN s
  ELSE IF s.player_ = NULL THEN Throw(s)
  ELSE ThrowUnlessRet(EngineCall(s, "SetDisplayRoi", F))

\* PlusPlayer::Create
PlusPlayer_Create(s0, drm_type, url, F) ==
  PlusPlayer_Prepare(
    PlusPlayer_SetDisplayRoi(
      PlusPlayer_SetDisplay(
        PlusPlayer_CreateDrm(
          PlusPlayer_Register(
            PlusPlayer_Open(PlusPlayer_CreateHandle(s0, F), F), F),
          drm_type, url, F), F), F), F)

\* PlusPlayer::Dispose: if (player_) { UnregisterListener; DestroyPlayer }
PlusPlayer_DisposeEngine(s, F) ==
  IF s.player_ = NULL THEN s
  ELSE [EngineDestroy(Call(Call(s, "UnregisterListener", s.player_, F),
                           "DestroyPlayer", s.player_, F), s.player_)
          EXCEPT !.player_ = NULL]

\* PlusPlayer::Dispose
PlusPlayer_Dispose(s0, F) == DisposeDrm(PlusPlayer_DisposeEngine(s0, F), F)

\* ------------------------------------------------------------------ seek
\* The continuation passed to the next SeekTo call.
NextCb(s) ==
  IF \E c \in 1..MaxSeeks : s.cbStatus[c] = "unused"
  THEN CHOOSE c \in 1..MaxSeeks :
         s.cbStatus[c] = "unused"
         /\ \A d \in 1..MaxSeeks : s.cbStatus[d] = "unused" => c <= d
  ELSE NULL

\* The engine's answer to a seek request on the handle the caller passes.
EngineSeek(s, name, cb, F) ==
  IF AtLeastReady(GetState(s, s.player_)) /\ name \notin F
  THEN [Call(s, name, s.player_, F)
          EXCEPT !.seeks = Append(@, [h |-> s.player_, c |-> cb]),
                 !.ret = TRUE]
  ELSE [Call(s, name, s.player_, F \cup {name}) EXCEPT !.ret = FALSE]

\* SeekTo in both backends: if the engine refused, the continuation is
\* dropped and the failure raised.
SeekResult(s, cb) ==
  IF s.ret THEN [s EXCEPT !.cbStatus[cb] = "accepted"]
  ELSE Throw([s EXCEPT !.on_seek_completed_ = NULL,
                       !.cbStatus[cb] = "rejected"])

\* MediaPlayer::SeekTo
MediaPlayer_SeekTo(s0, cb, F) ==
  SeekResult(EngineSeek([s0 EXCEPT !.on_seek_completed_ = cb],
                        "player_set_play_position", cb, F), cb)

\* MediaPlayer::SeekTo up to the engine call: on_seek_completed_ =
\* std::move(callback)
MediaPlayer_SeekTo_Store(s0, cb) ==
  [s0 EXCEPT !.on_seek_completed_ = cb, !.seekpc = cb]

\* MediaPlayer::SeekTo from the engine call on; the clearing assignment
\* writes the member whatever the engine thread did with it meanwhile.
MediaPlayer_SeekTo_Call(s0, F) ==
  SeekResult(EngineSeek([s0 EXCEPT !.seekpc = NULL],
                        "player_set_play_position", s0.seekpc, F), s0.seekpc)

\* PlusPlayer::SeekTo
PlusPlayer_SeekTo(s0, cb, F) ==
  IF s0.player_ = NULL \/ s0.on_seek_completed_ # NULL
  THEN Throw([s0 EXCEPT !.cbStatus[cb] = "rejected"])
  ELSE IF AtLeastReady(GetState(s0, s0.player_))
  THEN SeekResult(EngineSeek([Call(s0, "GetState", s0.player_, {})
                                EXCEPT !.on_seek_completed_ = cb],
                             "Seek", cb, F), cb)
  ELSE Throw([Call(s0, "GetState", s0.player_, {})
                EXCEPT !.cbStatus[cb] = "rejected"])

\* OnSeekCompleted of both backends, statement by statement.
\* if (self->on_seek_completed_): the engine delivers the completion of the
\* oldest seek in flight.
OnSeekCompleted_Test(s0) ==
  [s0 EXCEPT !.seeks = Tail(@),
             !.cbpc = IF s0.on_seek_completed_ # NULL THEN "invoke" ELSE "idle"]

\* self->on_seek_completed_()
OnSeekCompleted_Invoke(s0) ==
  IF s0.on_seek_completed_ = NULL
  THEN Fault([s0 EXCEPT !.cbpc = "clear", !.cbCur = NULL], "bad_function_call")
  ELSE [s0 EXCEPT !.cbpc = "clear", !.cbCur = s0.on_seek_completed_,
                  !.cbInvoked[s0.on_seek_completed_] = @ + 1]

\* self->on_seek_completed_ = nullptr
OnSeekCompleted_Clear(s0) ==
  IF s0.on_seek_completed_ \notin {NULL, s0.cbCur}
  THEN Fault([s0 EXCEPT !.on_seek_completed_ = NULL, !.cbpc = "idle",
                        !.cbCur = NULL], "erased_other")
  ELSE [s0 EXCEPT !.on_seek_completed_ = NULL, !.cbpc = "idle", !.cbCur = NULL]

\* ------------------------------------------------------- playback controls
\* MediaPlayer::Play
MediaPlayer_Play(s0, F) ==
  IF EngineOk(s0, "player_get_state", F)
     /\ GetState(s0, s0.player_) \notin {"paused", "ready"}
  THEN EngineCall(s0, "player_get_state", F)
  ELSE ThrowUnlessRet(EngineStart(EngineCall(s0, "player_get_state", F),
                                  "player_start", F))

\* MediaPlayer::Pause
MediaPlayer_Pause(s0, F) ==
  IF EngineOk(s0, "player_get_state", F)
     /\ GetState(s0, s0.player_) # "playing"
  THEN EngineCall(s0, "player_get_state", F)
  ELSE ThrowUnlessRet(EnginePause(EngineCall(s0, "player_get_state", F),
                                  "player_pause", F))

\* MediaPlayer::SetDisplayRoi
MediaPlayer_SetDisplayRoi(s0, F) ==
  ThrowUnlessRet(EngineCall(s0, "player_set_display_roi_area", F))

\* MediaPlayer::SetLooping
MediaPlayer_SetLooping(s0, F) ==
  ThrowUnlessRet(EngineCall(s0, "player_set_looping", F))

\* MediaPlayer::SetVolume
MediaPlayer_SetVolume(s0, F) ==
  ThrowUnlessRet(EngineCall(s0, "player_set_volume", F))

\* MediaPlayer::SetPlaybackSpeed
MediaPlayer_SetPlaybackSpeed(s0, F) ==
  ThrowUnlessRet(EngineCall(s0, "player_set_playback_rate", F))

\* return position / return duration
Return(s, value) ==
  IF s.thrown THEN s
  ELSE [s EXCEPT !.out = [written |-> TRUE, value |-> value, width |-> 0,
                          height |-> 0]]

\* *width = w; *height = h
WriteSize(s, size) ==
  IF s.thrown THEN s
  ELSE [s EXCEPT !.out = [written |-> TRUE, value |-> 0,
                          width |-> size.width, height |-> size.height]]

\* MediaPlayer::GetPosition
MediaPlayer_GetPosition(s0, F) ==
  Return(ThrowUnlessRet(EngineCall(s0, "player_get_play_position", F)),
         s0.video.position)

\* MediaPlayer::GetDuration
MediaPlayer_GetDuration(s0, F) ==
  Return(ThrowUnlessRet(EngineCall(s0, "player_get_duration", F)),
         s0.video.duration)

\* MediaPlayer::GetVideoSize: the rotation query that follows the size query
MediaPlayer_GetRotation(s, F) ==
  IF s.thrown THEN s
  ELSE ThrowUnlessRet(EngineCall(s, "player_get_display_rotation", F))

\* MediaPlayer::GetVideoSize
MediaPlayer_GetVideoSize(s0, F) ==
  WriteSize(MediaPlayer_GetRotation(
              ThrowUnlessRet(EngineCall(s0, "player_get_video_size", F)), F),
            ReportedSize(s0.video))

\* PlusPlayerProxy::GetState(player_) as the PlusPlayer operations call it
PlusPlayer_GetState(s) ==
  IF s.player_ \notin Handles \cup {NULL}
  THEN Fault(Call(s, "GetState", s.player_, {}), "invalid_handle")
  ELSE Call(s, "GetState", s.player_, {})

\* PlusPlayer::Play
PlusPlayer_Play(s0, F) ==
  IF s0.player_ = NULL THEN Throw(s0)
  ELSE IF StateRank(GetState(s0, s0.player_)) < StateRank("ready")
  THEN Throw(PlusPlayer_GetState(s0))
  ELSE IF GetState(s0, s0.player_) = "ready"
  THEN ThrowUnlessRet(EngineStart(PlusPlayer_GetState(s0), "Start", F))
  ELSE IF GetState(s0, s0.player_) = "paused"
  THEN ThrowUnlessRet(EngineStart(PlusPlayer_GetState(s0), "Resume", F))
  ELSE PlusPlayer_GetState(s0)

\* PlusPlayer::Pause
PlusPlayer_Pause(s0, F) ==
  IF s0.player_ = NULL THEN Throw(s0)
  ELSE IF StateRank(GetState(s0, s0.player_)) < StateRank("ready")
  THEN Throw(PlusPlayer_GetState(s0))
  ELSE IF GetState(s0, s0.player_) = "playing"
  THEN ThrowUnlessRet(EnginePause(PlusPlayer_GetState(s0), "Pause", F))
  ELSE PlusPlayer_GetState(s0)

\* A SetLooping that hands the request to the engine.
PlusPlayer_SetLooping_Forwarded(s0, F) ==
  ThrowUnlessRet(EngineCall(s0, "SetLooping", F))

\* PlusPlayer::SetLooping
PlusPlayer_SetLooping(s0, F) == Throw(s0)

\* PlusPlayer::SetVolume
PlusPlayer_SetVolume(s0, F) == Throw(s0)

\* PlusPlayer::SetPlaybackSpeed
PlusPlayer_SetPlaybackSpeed(s0, F) ==
  IF s0.player_ = NULL THEN Throw(s0)
  ELSE IF StateRank(GetState(s0, s0.player_)) > StateRank("idle")
  THEN ThrowUnlessRet(EngineCall(PlusPlayer_GetState(s0), "SetPlaybackRate", F))
  ELSE Throw(PlusPlayer_GetState(s0))

\* PlusPlayer::GetPosition
PlusPlayer_GetPosition(s0, F) ==
  IF s0.player_ = NULL THEN Throw(s0)
  ELSE IF GetState(s0, s0.player_) \in {"playing", "paused"}
  THEN Return(ThrowUnlessRet(EngineCall(PlusPlayer_GetState(s0),
                                        "GetPlayingTime", F)),
              s0.video.position)
  ELSE Throw(PlusPlayer_GetState(s0))

\* PlusPlayer::GetDuration
PlusPlayer_GetDuration(s0, F) ==
  IF s0.player_ = NULL THEN Throw(s0)
  ELSE IF StateRank(GetState(s0, s0.player_)) >= StateRank("source_ready")
  THEN Return(ThrowUnlessRet(EngineCall(PlusPlayer_GetState(s0),
                                        "GetDuration", F)),
              s0.video.duration)
  ELSE Throw(PlusPlayer_GetState(s0))

\* PlusPlayer::GetVideoSize
PlusPlayer_GetVideoSize(s0, F) ==
  IF s0.player_ = NULL THEN Throw(s0)
  ELSE IF StateRank(GetState(s0, s0.player_)) >= StateRank("source_ready")
  THEN WriteSize(ThrowUnlessRet(EngineCall(PlusPlayer_GetState(s0),
                                           "GetVideoSize", F)),
                 [width |-> s0.video.w, height |-> s0.video.h])
  ELSE Throw(PlusPlayer_GetState(s0))

\* ---------------------------------------------------------- play completed
\* VideoPlayer::SendPlayCompleted
SendPlayCompleted(s) == Emit(s, Notification(s, "completed", 0, 0, 0))

\* OnPlayCompleted of both backends up to the end of SendPlayCompleted; the
\* callback of MediaPlayer has Pause still to call.
OnPlayCompleted_Send(s0) ==
  [SendPlayCompleted(s0)
     EXCEPT !.cbpc = IF backend = "media" THEN "pause" ELSE "idle"]

\* MediaPlayer::OnPlayCompleted: self->Pause()
OnPlayCompleted_Pause(s0, F) ==
  [MediaPlayer_Pause(s0, F) EXCEPT !.cbpc = "idle"]

\* -------------------------------------------------------------- interrupted
\* VideoPlayer::SendError: if (event_sink_) event_sink_->Error(error_code,
\* error_message)
SendError(s, code) == EmitError(s, code)

\* MediaPlayer::OnInterrupted: self->SendError("Interrupted error", ..); the
\* callback writes no member of the player.
MediaPlayer_OnInterrupted(s0) == SendError(s0, "Interrupted error")

\* ---------------------------------------------------------------- buffering
\* SendBufferingStart, SendBufferingUpdate, SendBufferingEnd: if
\* (event_sink_) event_sink_->Success({event, value})
SendBuffering(s, name, value) ==
  Emit(Call(s, name, value, {}), Notification(s, name, value, 0, 0))

\* An OnBuffering that looks only at the percent.
OnBuffering_Stateless(s0, percent) ==
  IF percent = 100
  THEN [SendBuffering(s0, "bufferingEnd", 0) EXCEPT !.is_buffering_ = FALSE]
  ELSE IF percent <= 5
  THEN [SendBuffering(s0, "bufferingStart", 0) EXCEPT !.is_buffering_ = TRUE]
  ELSE SendBuffering(s0, "bufferingUpdate", percent)

\* MediaPlayer::OnBuffering and PlusPlayer::OnBuffering
OnBuffering(s0, percent) ==
  IF percent = 100
  THEN [SendBuffering(s0, "bufferingEnd", 0) EXCEPT !.is_buffering_ = FALSE]
  ELSE IF ~s0.is_buffering_ /\ percent <= 5
  THEN [SendBuffering(s0, "bufferingStart", 0) EXCEPT !.is_buffering_ = TRUE]
  ELSE SendBuffering(s0, "bufferingUpdate", percent)

\* ------------------------------------------------------------- challenge
\* A check of the response that does not look at its length.
ResponseUsable_AnyLength(viaUrl, status, data, len) ==
  IF viaUrl THEN status /\ data # NULL ELSE data # NULL

\* The checks OnChallengeData makes on what the license source returned.
ResponseUsable(viaUrl, status, data, len) ==
  IF viaUrl THEN status /\ data # NULL /\ len # 0
  ELSE data # NULL /\ len # 0

\* A choice of the license source that prefers the delegate.
ChallengePath_DelegateFirst(s) ==
  IF s.challenge_callback_ THEN "callback"
  ELSE IF s.license_server_url_ # "" THEN "url" ELSE "none"

\* The license source OnChallengeData asks: the server, the delegate or none.
ChallengePath(s) ==
  IF s.license_server_url_ # "" THEN "url"
  ELSE IF s.challenge_callback_ THEN "callback" ELSE "none"

\* What the license source hands back for a transaction: a buffer of its own
\* or none, a length and, from the server, a status.
Response(path, txn, status, hasData, len) ==
  [active |-> TRUE, gen |-> 0, txn |-> txn, path |-> path,
   data |-> IF path # "none" /\ hasData THEN txn ELSE NULL,
   len |-> IF path # "none" THEN len ELSE 0,
   status |-> IF path = "url" THEN status ELSE path = "callback"]

\* DrmManager::OnChallengeData up to the return of the license source: the
\* transaction with the license server, or the delegate's rendezvous.
OnChallengeData_Request(s0, r) ==
  [(IF r.path = "url" THEN Call(s0, "DoTransactionTZ", r.txn, {})
    ELSE IF r.path = "callback"
    THEN Call(s0, "challenge_callback_", r.txn, {})
    ELSE s0)
     EXCEPT !.chpc = [r EXCEPT !.gen = s0.emeCb.gen],
            !.bufs = IF r.data # NULL THEN [@ EXCEPT ![r.data] = "alloc"]
                     ELSE @,
            !.challengeLog = Append(@, [sid |-> r.txn, buf |-> r.data,
                                        len |-> r.len, path |-> r.path,
                                        ret |-> "running"])]

\* InstallEMEKey: DMGRSetData(self->drm_session_, "install_eme_key", ..)
\* as the DRM engine and the allocator see it.
InstallKey(s, task, F) ==
  [Call(s, "install_eme_key", s.drm_session_, F)
     EXCEPT !.faults = @ \cup (IF s.drm_session_ = NULL
                               THEN {"install_null_session"} ELSE {})
                       \cup (IF s.bufs[s.license_param_.param2] = "freed"
                             THEN {"install_freed_buffer"} ELSE {}),
            !.installLog = Append(@, [txn |-> task.txn,
                                      sid |-> s.license_param_.param1,
                                      buf |-> s.license_param_.param2])]

\* free(response) in OnChallengeData, free(self->license_param_.param2) in
\* InstallEMEKey
FreeResponse(s) ==
  IF s.bufs[s.license_param_.param2] = "freed"
  THEN Fault(Call(s, "free", s.license_param_.param2, {}), "double_free")
  ELSE [Call(s, "free", s.license_param_.param2, {})
          EXCEPT !.bufs[s.license_param_.param2] = "freed"]

\* An OnChallengeData that installs the response itself instead of adding
\* an idle source.
ScheduleInstall_Sync(s, c, F) ==
  [FreeResponse(
     InstallKey([s EXCEPT !.license_param_ = [param1 |-> c.txn,
                                              param2 |-> c.data]],
                [txn |-> c.txn], F))
     EXCEPT !.ret = TRUE, !.challengeLog[c.txn].ret = "ok"]

\* OnChallengeData: license_param_ = {session_id, response, response_len};
\* source_id_ = g_idle_add(InstallEMEKey, self); if (source_id_ <= 0)
\* { free(response); return DM_ERROR_INTERNAL_ERROR; }
ScheduleInstall(s, c, F) ==
  IF "g_idle_add" \in F
  THEN [FreeResponse(
          [Call(s, "g_idle_add", c.txn, F)
             EXCEPT !.license_param_ = [param1 |-> c.txn, param2 |-> c.data],
                    !.source_id_ = 0])
          EXCEPT !.ret = FALSE, !.challengeLog[c.txn].ret = "error"]
  ELSE [Call(s, "g_idle_add", c.txn, F)
          EXCEPT !.license_param_ = [param1 |-> c.txn, param2 |-> c.data],
                 !.idleq = Append(@, [id |-> c.txn, gen |-> c.gen,
                                      txn |-> c.txn]),
                 !.source_id_ = c.txn, !.ret = TRUE,
                 !.challengeLog[c.txn].ret = "ok"]

\* The rest of DrmManager::OnChallengeData; ret is (status = DM_ERROR_NONE).
OnChallengeData_Schedule(s0, F) ==
  IF ResponseUsable(s0.chpc.path = "url", s0.chpc.status, s0.chpc.data,
                    s0.chpc.len)
  THEN ScheduleInstall([s0 EXCEPT !.chpc = NoChallenge], s0.chpc, F)
  ELSE [s0 EXCEPT !.chpc = NoChallenge, !.ret = FALSE,
                  !.challengeLog[s0.chpc.txn].ret = "error"]

\* DrmManager::InstallEMEKey, dispatched by the idle queue
InstallEMEKey(s0, F) ==
  IF s0.license_param_.param2 = NULL THEN [s0 EXCEPT !.idleq = Tail(@)]
  ELSE FreeResponse(InstallKey([s0 EXCEPT !.idleq = Tail(@)],
                               Head(s0.idleq), F))

\* A callback whose user_data is a DrmManager that was destroyed: the access
\* to the freed object either finds the fields of the manager in its place
\* or has no effect the session observes.
Dangling(s, gen) == gen # s.mgrGen

\* ================================================================ actions
\* The platform calls that can report failure inside Create, per backend.
EngineFailPoints ==
  [media |-> {"player_create", "OpenMediaPlayerProxy", "InitMediaPlayerProxy",
              "dlopen_ecore_wl2", "dlsym_ecore_wl2",
              "player_set_ecore_wl_display", "player_set_display_mode",
              "player_set_display_roi_area", "player_set_uri",
              "player_set_display_visible", "player_set_buffering_cb",
              "player_set_completed_cb", "player_set_interrupted_cb",
              "player_set_error_cb", "player_set_subtitle_updated_cb",
              "player_prepare_async"},
   plus |-> {"CreatePlayer", "Open", "app_manager_get_app_id", "screen.width",
             "screen.height", "SetDisplay", "SetDisplayMode", "SetDisplayRoi",
             "PrepareAsync"}]

\* The steps of the DRM setup that report failure, per backend.
DrmFailPoints ==
  [media |-> {"OpenDrmManagerProxy", "InitDrmManagerProxy",
              "DMGRCreateDRMSession", "error_event_callback", "drm_handle",
              "player_set_drm_handle", "player_set_drm_init_complete_cb",
              "player_set_drm_init_data_cb", "eme_request_key_callback",
              "set_playready_manifest", "Initialize"},
   plus |-> {"OpenDrmManagerProxy", "InitDrmManagerProxy",
             "DMGRCreateDRMSession", "error_event_callback", "drm_handle",
             "eme_request_key_callback", "set_playready_manifest",
             "Initialize"}]

ReleaseFailPoints == {"Finalize", "DMGRReleaseDRMSession"}

Singletons(S) == {{x} : x \in S}

\* Failure sets of one Create: nothing fails, one call fails, or one call
\* fails together with calls of the session release it triggers.
CreateFaults(b, drm_type) ==
  {{}} \cup Singletons(EngineFailPoints[b])
       \cup (IF drm_type = 0 THEN {}
             ELSE Singletons(DrmFailPoints[b])
                  \cup {{x} \cup R : x \in {"error_event_callback"},
                                     R \in (SUBSET ReleaseFailPoints) \ {{}}})

\* Failure sets of a Create in which only the DRM setup may fail.
DrmOnlyFaults == {{}, {"eme_request_key_callback"}, {"Initialize"}}

\* Failure sets of a Create in which only the prepare request may fail.
PrepareFaults == {{}, {"player_prepare_async", "PrepareAsync"}}

\* Create of the backend in use
CreateOf(s, drm_type, url, F) ==
  IF backend = "media" THEN MediaPlayer_Create(s, drm_type, url, F)
  ELSE PlusPlayer_Create(s, drm_type, url, F)

\* Dispose of the backend in use
DisposeOf(s, F) ==
  IF backend = "media" THEN MediaPlayer_Dispose(s, F)
  ELSE PlusPlayer_Dispose(s, F)

\* SeekTo of the backend in use
SeekToOf(s, cb, F) ==
  IF backend = "media" THEN MediaPlayer_SeekTo(s, cb, F)
  ELSE PlusPlayer_SeekTo(s, cb, F)

\* What the engine may answer to the queries of one handler run.
Videos ==
  [w : {1920}, h : {1080}, rot : Rotations, duration : {60000},
   position : {1000}]

\* The buffering percents the engine delivers.
Percents == {0, 3, 5, 40, 100}

\* The engine's answers during the handler run that starts in s.
Probe(s, v) == [s EXCEPT !.video = v]

PlayOf(s, F) ==
  IF backend = "media" THEN MediaPlayer_Play(s, F) ELSE PlusPlayer_Play(s, F)

PauseOf(s, F) ==
  IF backend = "media" THEN MediaPlayer_Pause(s, F) ELSE PlusPlayer_Pause(s, F)

SetLoopingOf(s, F) ==
  IF backend = "media" THEN MediaPlayer_SetLooping(s, F)
  ELSE PlusPlayer_SetLooping(s, F)

SetVolumeOf(s, F) ==
  IF backend = "media" THEN MediaPlayer_SetVolume(s, F)
  ELSE PlusPlayer_SetVolume(s, F)

SetPlaybackSpeedOf(s, F) ==
  IF backend = "media" THEN MediaPlayer_SetPlaybackSpeed(s, F)
  ELSE PlusPlayer_SetPlaybackSpeed(s, F)

GetPositionOf(s, F) ==
  IF backend = "media" THEN MediaPlayer_GetPosition(s, F)
  ELSE PlusPlayer_GetPosition(s, F)

GetDurationOf(s, F) ==
  IF backend = "media" THEN MediaPlayer_GetDuration(s, F)
  ELSE PlusPlayer_GetDuration(s, F)

GetVideoSizeOf(s, F) ==
  IF backend = "media" THEN MediaPlayer_GetVideoSize(s, F)
  ELSE PlusPlayer_GetVideoSize(s, F)

SetDisplayRoiOf(s, F) ==
  IF backend = "media" THEN MediaPlayer_SetDisplayRoi(s, F)
  ELSE PlusPlayer_SetDisplayRoi(s, F)

\* What the caller of a handler sees: a typed failure or a normal return.
Outcome(s) == IF s.thrown THEN "error" ELSE "ok"

\* Create with or without DRM, any one platform call failing.
Create ==
  \E drm_type \in {0, 1}, url \in {"", "url"} :
    \E F \in CreateFaults(backend, drm_type) :
      /\ FreshHandle(Cur) # NULL
      /\ drm_type = 0 => url = ""
      /\ LET s == CreateOf(Cur, drm_type, url, F)
         IN Commit(s, "Create", drm_type, Outcome(s))

\* Create with DRM, where only the challenge setup may fail.
CreateDrm ==
  \E url \in {"", "url"}, F \in DrmOnlyFaults :
    /\ FreshHandle(Cur) # NULL
    /\ LET s == CreateOf(Cur, 1, url, F)
       IN Commit(s, "Create", 1, Outcome(s))

\* Create without DRM, where only the prepare request may fail.
CreatePlain ==
  \E F \in PrepareFaults :
    /\ FreshHandle(Cur) # NULL
    /\ LET s == CreateOf(Cur, 0, "", F)
       IN Commit(s, "Create", 0, Outcome(s))

\* Dispose, the session release failing in any way.
Dispose ==
  \E F \in SUBSET ReleaseFailPoints :
    LET s == DisposeOf(Cur, F)
    IN Commit(s, "Dispose", 0, Outcome(s))

\* Dispose with a DRM engine that releases without error.
DisposeClean ==
  \E F \in {{}} :
    LET s == DisposeOf(Cur, F)
    IN Commit(s, "Dispose", 0, Outcome(s))

\* A listener attaches to the event channel.
OnListen ==
  /\ event_channel_
  /\ ~event_sink_
  /\ \E F \in {{}, {"player_get_state"}, {"get_duration"},
                {"get_display_rotation"}}, v \in Videos :
       Commit(Initialize(Probe(Cur, v), F), "OnListen", 0, "ok")

\* The engine finishes preparing a handle and calls OnPrepared.
Prepared ==
  \E h \in Handles, F \in {{}, {"get_video_size"}}, v \in Videos :
    \E ret \in (IF backend = "media" THEN {TRUE} ELSE BOOLEAN) :
      /\ hstate[h] \in {"preparing", "sourced"}
      /\ Commit(OnPrepared(Probe(Cur, v), h, ret, F), "OnPrepared", h,
                IF ret THEN "ok" ELSE "error")

SeekTo ==
  \E F \in {{}, {"player_set_play_position", "Seek"}} :
    /\ NextCb(Cur) # NULL
    /\ LET s == SeekToOf(Cur, NextCb(Cur), F)
       IN Commit(s, "SeekTo", NextCb(Cur), Outcome(s))

\* SeekTo of MediaPlayer on the platform thread, in the two steps between
\* which the engine thread can run OnSeekCompleted.
SeekStore ==
  /\ backend = "media"
  /\ seekpc = NULL
  /\ NextCb(Cur) # NULL
  /\ Commit(MediaPlayer_SeekTo_Store(Cur, NextCb(Cur)), "SeekToStore",
            NextCb(Cur), "ok")

SeekCall ==
  \E F \in {{}, {"player_set_play_position"}} :
    /\ seekpc # NULL
    /\ LET s == MediaPlayer_SeekTo_Call(Cur, F)
       IN Commit(s, "SeekTo", seekpc, Outcome(s))

\* The engine thread enters OnSeekCompleted for the oldest seek in flight.
SeekCompletedTest ==
  /\ cbpc = "idle"
  /\ seeks # <<>>
  /\ Commit(OnSeekCompleted_Test(Cur), "OnSeekCompleted", 1, "ok")

SeekCompletedInvoke ==
  /\ cbpc = "invoke"
  /\ Commit(OnSeekCompleted_Invoke(Cur), "OnSeekCompleted", 2, "ok")

SeekCompletedClear ==
  /\ cbpc = "clear"
  /\ Commit(OnSeekCompleted_Clear(Cur), "OnSeekCompleted", 3, "ok")

\* The DRM engine calls OnChallengeData on its own thread.
ChallengeRequest ==
  \E status \in BOOLEAN, hasData \in BOOLEAN, len \in {0, 1}, found \in BOOLEAN :
    /\ emeCb.armed
    /\ sess[emeCb.sess] = "live"
    /\ ~chpc.active
    /\ Len(challengeLog) < MaxChallenges
    /\ found \/ Dangling(Cur, emeCb.gen)
    /\ (ChallengePath(Cur) # "url" \/ ~found) => status
    /\ Commit(OnChallengeData_Request(
                IF Dangling(Cur, emeCb.gen) THEN Fault(Cur, "use_after_free")
                ELSE Cur,
                Response(IF found THEN ChallengePath(Cur) ELSE "none",
                         Len(challengeLog) + 1, status, hasData, len)),
              "ChallengeRequest", Len(challengeLog) + 1, "ok")

\* The license source returns and OnChallengeData runs to its end.
ChallengeReturn ==
  \E found \in BOOLEAN, F \in {{}, {"g_idle_add"}} :
    /\ chpc.active
    /\ found \/ Dangling(Cur, chpc.gen)
    /\ LET s == IF Dangling(Cur, chpc.gen)
                THEN Fault(IF found THEN OnChallengeData_Schedule(Cur, F)
                           ELSE [Cur EXCEPT !.chpc = NoChallenge,
                                            !.ret = FALSE],
                           "use_after_free")
                ELSE OnChallengeData_Schedule(Cur, F)
       IN Commit(s, "OnChallengeData", chpc.txn,
                 IF s.ret THEN "ok" ELSE "error")

\* The main loop dispatches the oldest idle source.
IdleDispatch ==
  \E F \in {{}, {"install_eme_key"}}, found \in BOOLEAN :
    /\ idleq # <<>>
    /\ found \/ Dangling(Cur, Head(idleq).gen)
    /\ Commit(IF Dangling(Cur, Head(idleq).gen)
              THEN Fault(IF found THEN InstallEMEKey(Cur, F)
                         ELSE [Cur EXCEPT !.idleq = Tail(@)],
                         "use_after_free")
              ELSE InstallEMEKey(Cur, F),
              "InstallEMEKey", Head(idleq).txn, "ok")

\* The engine of PlusPlayer reaches the track-source-ready state on its way
\* to ready.
TrackSourceReady ==
  \E h \in Handles :
    /\ backend = "plus"
    /\ hstate[h] = "preparing"
    /\ Commit([Cur EXCEPT !.hstate[h] = "sourced"], "TrackSourceReady", h, "ok")

\* Each control is called in whatever state the engine is in; lastInput
\* keeps the state the engine reported when the call was made.
Play ==
  \E F \in {{}, {"player_get_state"}, {"player_start", "Start", "Resume"}} :
    LET s == PlayOf(Cur, F)
    IN Commit(s, "Play", GetState(Cur, player_), Outcome(s))

Pause ==
  \E F \in {{}, {"player_get_state"}, {"player_pause", "Pause"}} :
    LET s == PauseOf(Cur, F)
    IN Commit(s, "Pause", GetState(Cur, player_), Outcome(s))

SetLooping ==
  \E F \in {{}, {"player_set_looping"}} :
    LET s == SetLoopingOf(Cur, F)
    IN Commit(s, "SetLooping", GetState(Cur, player_), Outcome(s))

SetVolume ==
  \E F \in {{}, {"player_set_volume"}} :
    LET s == SetVolumeOf(Cur, F)
    IN Commit(s, "SetVolume", GetState(Cur, player_), Outcome(s))

SetPlaybackSpeed ==
  \E F \in {{}, {"player_set_playback_rate", "SetPlaybackRate"}} :
    LET s == SetPlaybackSpeedOf(Cur, F)
    IN Commit(s, "SetPlaybackSpeed", GetState(Cur, player_), Outcome(s))

GetPosition ==
  \E F \in {{}, {"player_get_play_position", "GetPlayingTime"}}, v \in Videos :
    LET s == GetPositionOf(Probe(Cur, v), F)
    IN Commit(s, "GetPosition", GetState(Cur, player_), Outcome(s))

GetDuration ==
  \E F \in {{}, {"player_get_duration", "GetDuration"}}, v \in Videos :
    LET s == GetDurationOf(Probe(Cur, v), F)
    IN Commit(s, "GetDuration", GetState(Cur, player_), Outcome(s))

GetVideoSize ==
  \E F \in {{}, {"player_get_video_size", "GetVideoSize"},
            {"player_get_display_rotation"}}, v \in Videos :
    LET s == GetVideoSizeOf(Probe(Cur, v), F)
    IN Commit(s, "GetVideoSize", GetState(Cur, player_), Outcome(s))

SetDisplayRoi ==
  \E F \in {{}, {"player_set_display_roi_area", "SetDisplayRoi"}} :
    LET s == SetDisplayRoiOf(Cur, F)
    IN Commit(s, "SetDisplayRoi", GetState(Cur, player_), Outcome(s))

\* The engine thread delivers a buffering percent for the handle in use.
Buffering ==
  \E percent \in Percents :
    /\ Live(Cur, player_)
    /\ Len(percents) < MaxEvents
    /\ Commit(OnBuffering([Cur EXCEPT !.percents = Append(@, percent)],
                          percent),
              "OnBuffering", percent, "ok")

\* The on-listen handler and OnPrepared on their two threads, each split at
\* the guard of SendInitialized.
ListenTest ==
  \E F \in {{}, {"player_get_state"}} :
    /\ event_channel_
    /\ ~event_sink_
    /\ Commit(Initialize_Test(Cur, F), "OnListen", 1, "ok")

ListenSend ==
  \E F \in {{}, {"get_duration"}, {"get_display_rotation"}}, v \in Videos :
    /\ sipc.listen = "send"
    /\ Commit(SendInitialized_Send(Probe(Cur, v), "listen", F),
              "OnListen", 2, "ok")

EngineReady ==
  \E h \in Handles :
    \E ret \in (IF backend = "media" THEN {TRUE} ELSE BOOLEAN) :
      /\ hstate[h] \in {"preparing", "sourced", "ready"}
      /\ sipc.engine = "idle"
      /\ Len(events) < MaxEvents
      /\ Commit(EnginePrepared_Call(Cur, h, ret), "EnginePrepared", h, "ok")

PreparedTest ==
  /\ sipc.engine = "called"
  /\ Commit(OnPrepared_Test(Cur), "OnPrepared", 1, "ok")

PreparedSend ==
  \E F \in {{}, {"get_video_size"}}, v \in Videos :
    /\ sipc.engine = "send"
    /\ Commit(SendInitialized_Send(Probe(Cur, v), "engine", F),
              "OnPrepared", 2, "ok")

\* The engine reaches the end of the stream and, on its own thread, enters
\* OnPlayCompleted of the player that holds the handle.
PlayCompletedSend ==
  /\ cbpc = "idle"
  /\ GetState(Cur, player_) = "playing"
  /\ Len(events) < MaxEvents
  /\ Commit(OnPlayCompleted_Send(Cur), "OnPlayCompleted", 1, "ok")

\* The engine thread goes on inside OnPlayCompleted of MediaPlayer.
PlayCompletedPause ==
  \E F \in {{}, {"player_get_state"}, {"player_pause"}} :
    /\ cbpc = "pause"
    /\ LET s == OnPlayCompleted_Pause(Cur, F)
       IN Commit(s, "OnPlayCompleted", 2, Outcome(s))

\* The engine interrupts the playback of the handle in use and calls the
\* interrupted callback MediaPlayer::Create registered; PlusPlayer registers
\* none.
Interrupted ==
  /\ backend = "media"
  /\ Live(Cur, player_)
  /\ Len(events) < MaxEvents
  /\ Commit(MediaPlayer_OnInterrupted(Cur), "OnInterrupted", player_, "ok")

\* The private functions are bound from a library that exports any part
\* of them, through a handle that dlopen returned or a null one.
BindProxy ==
  \E handle \in {NULL, 1}, R \in SUBSET ProxySymbolSet :
    LET s == InitMediaPlayerProxy(Cur, handle, R)
    IN Commit(s, "InitMediaPlayerProxy", [handle |-> handle, exports |-> R],
              IF s.ret THEN "ok" ELSE "error")

\* What the caller of a DrmManager function sees returned.
Returned(s) == IF s.ret THEN "ok" ELSE "error"

\* The steps of SetChallenge(media_url) that report failure.
ChallengeFailPoints ==
  {"eme_request_key_callback", "set_playready_manifest", "Initialize"}

\* The DrmManager driven through its public functions by a client that
\* holds one manager.
MgrConstruct ==
  \E F \in {{}, {"OpenDrmManagerProxy"}, {"InitDrmManagerProxy"}} :
    /\ ~drm_manager_
    /\ Commit(MakeDrmManager(Cur, F), "DrmManager", 0, "ok")

MgrCreateSession ==
  \E local_mode \in BOOLEAN :
    \E F \in {{}, {"DMGRCreateDRMSession"}}
             \cup {{"error_event_callback"} \cup R :
                     R \in SUBSET ReleaseFailPoints} :
      /\ drm_manager_
      /\ drm_session_ = NULL
      /\ LET s == CreateDrmSession(Cur, local_mode, F)
         IN Commit(s, "CreateDrmSession", drm_session_, Returned(s))

MgrSetLicenseServer ==
  \E url \in {"", "url"}, F \in {{}} \cup Singletons(ChallengeFailPoints) :
    /\ drm_manager_
    /\ LET s == SetChallenge_LicenseServer(Cur, url, F)
       IN Commit(s, "SetChallenge", drm_session_, Returned(s))

MgrSetCallback ==
  \E F \in {{}} \cup Singletons(ChallengeFailPoints) :
    /\ drm_manager_
    /\ LET s == SetChallenge_Callback(Cur, F)
       IN Commit(s, "SetChallenge", drm_session_, Returned(s))

MgrRelease ==
  \E F \in SUBSET ReleaseFailPoints :
    /\ drm_manager_
    /\ Commit(ReleaseDrmSession(Cur, F), "ReleaseDrmSession", drm_session_,
              "ok")

MgrGetHandle ==
  \E F \in {{}, {"drm_handle"}} :
    /\ drm_manager_
    /\ LET s == GetDrmHandle(Cur, F)
       IN Commit(s, "GetDrmHandle", drm_session_, Returned(s))

MgrUpdatePssh ==
  \E F \in {{}, {"update_pssh_data"}} :
    /\ drm_manager_
    /\ LET s == UpdatePsshData(Cur, F)
       IN Commit(s, "UpdatePsshData", drm_session_, Returned(s))

MgrSecurityInitComplete ==
  \E F \in {{}, {"DMGRSecurityInitCompleteCB"}} :
    /\ drm_manager_
    /\ LET s == SecurityInitCompleteCB(Cur, F)
       IN Commit(s, "SecurityInitCompleteCB", drm_session_, Returned(s))

Init ==
  /\ backend \in {"media", "plus"}
  /\ player_ \in (IF backend = "media" THEN {NULL} ELSE {NULL, GARBAGE})
  /\ is_initialized_ = FALSE
  /\ is_interrupted_ = FALSE
  /\ event_sink_ = FALSE
  /\ on_seek_completed_ = NULL
  /\ drm_manager_ = FALSE
  /\ drm_session_ = NULL
  /\ drm_manager_proxy_ = FALSE
  /\ initialized_ = FALSE
  /\ license_server_url_ = ""
  /\ challenge_callback_ = FALSE
  /\ source_id_ = 0
  /\ license_param_ = EmptyParam
  /\ mgrGen = 0
  /\ hstate = [h \in Handles |-> "none"]
  /\ sess = [x \in Sessions |-> "none"]
  /\ idleq = <<>>
  /\ bufs = [b \in Buffers |-> "none"]
  /\ seeks = <<>>
  /\ cbpc = "idle"
  /\ trace = <<>>
  /\ lastOp = "new"
  /\ lastResult = "ok"
  /\ lastInput = 0
  /\ createdOnce = FALSE
  /\ faults = {}
  /\ challengeLog = <<>>
  /\ installLog = <<>>
  /\ cbInvoked = [c \in 1..MaxSeeks |-> 0]
  /\ cbStatus = [c \in 1..MaxSeeks |-> "unused"]
  /\ cbCur = NULL
  /\ chpc = NoChallenge
  /\ emeCb = NoCallback
  /\ event_channel_ = FALSE
  /\ is_buffering_ = FALSE
  /\ sipc = NoSend
  /\ events = <<>>
  /\ percents = <<>>
  /\ slots = [f \in ProxySymbolSet |-> FALSE]
  /\ seekpc = NULL
  /\ probe = NoVideo
  /\ lastOut = NoOut

\* Lifecycle: creation with every failure point, disposal, the listener and
\* the engine's prepared callback.
Next ==
  \/ Create
  \/ Dispose
  \/ OnListen
  \/ Prepared

Spec == Init /\ [][Next]_vars

\* Seeking on a prepared session, with the engine thread's callback
\* interleaved statement by statement.
NextSeek ==
  \/ CreatePlain
  \/ DisposeClean
  \/ Prepared
  \/ SeekTo
  \/ SeekCompletedTest
  \/ SeekCompletedInvoke
  \/ SeekCompletedClear

SpecSeek == Init /\ [][NextSeek]_vars

\* The license exchange: challenge callbacks on the DRM engine's thread, the
\* idle queue and disposal on the main loop.
NextDrm ==
  \/ CreateDrm
  \/ Dispose
  \/ ChallengeRequest
  \/ ChallengeReturn
  \/ IdleDispatch

SpecDrm == Init /\ [][NextDrm]_vars

\* The two paths to the initialized notification, interleaved.
NextInit ==
  \/ CreatePlain
  \/ ListenTest
  \/ ListenSend
  \/ EngineReady
  \/ PreparedTest
  \/ PreparedSend

SpecInit == Init /\ [][NextInit]_vars

\* Playback controls and queries in every engine state.
NextPlay ==
  \/ CreatePlain
  \/ DisposeClean
  \/ OnListen
  \/ TrackSourceReady
  \/ Prepared
  \/ Play
  \/ Pause
  \/ SetLooping
  \/ SetVolume
  \/ SetPlaybackSpeed
  \/ GetPosition
  \/ GetDuration
  \/ GetVideoSize
  \/ SetDisplayRoi

SpecPlay == Init /\ [][NextPlay]_vars

\* Buffering percents delivered to a session with or without a listener.
NextBuf ==
  \/ CreatePlain
  \/ OnListen
  \/ Buffering

SpecBuf == Init /\ [][NextBuf]_vars

\* The DrmManager under every order of calls to its public functions.
NextMgr ==
  \/ MgrConstruct
  \/ MgrCreateSession
  \/ MgrSetLicenseServer
  \/ MgrSetCallback
  \/ MgrRelease
  \/ MgrGetHandle
  \/ MgrUpdatePssh
  \/ MgrSecurityInitComplete

SpecMgr == Init /\ [][NextMgr]_vars

\* The license exchange of a DrmManager configured through either variant
\* of SetChallenge, or through both.
NextSrc ==
  \/ MgrConstruct
  \/ MgrCreateSession
  \/ MgrSetLicenseServer
  \/ MgrSetCallback
  \/ ChallengeRequest
  \/ ChallengeReturn
  \/ IdleDispatch

SpecSrc == Init /\ [][NextSrc]_vars

\* The play-completed callback on the engine thread, interleaved with the
\* listener, Pause and Dispose on the platform thread.
NextLate ==
  \/ CreatePlain
  \/ DisposeClean
  \/ OnListen
  \/ Prepared
  \/ Play
  \/ Pause
  \/ PlayCompletedSend
  \/ PlayCompletedPause

SpecLate == Init /\ [][NextLate]_vars

\* Repeated binds of the private engine functions.
NextBind == BindProxy

SpecBind == Init /\ [][NextBind]_vars

\* Interruptions reported by the engine before and after the listener
\* attaches and the engine gets ready.
NextInt ==
  \/ CreatePlain
  \/ OnListen
  \/ Prepared
  \/ Interrupted

SpecInt == Init /\ [][NextInt]_vars

\* SeekTo of MediaPlayer and the engine thread's OnSeekCompleted, both
\* statement by statement.
NextSeekStep ==
  \/ CreatePlain
  \/ Prepared
  \/ SeekStore
  \/ SeekCall
  \/ SeekCompletedTest
  \/ SeekCompletedInvoke
  \/ SeekCompletedClear

SpecSeekStep == Init /\ [][NextSeekStep]_vars

\* ================================================================= claims
EngineTeardown ==
  {"player_unprepare", "player_destroy", "UnregisterListener", "DestroyPlayer"}

EngineDestroyCalls == {"player_destroy", "DestroyPlayer"}

DrmRelease ==
  {"ReleaseDrmSession", "g_source_remove", "Finalize", "DMGRReleaseDRMSession"}

SeekCalls == {"player_set_play_position", "Seek"}

PrepareCalls == {"player_prepare_async", "PrepareAsync", "SetUpEventChannel"}

DrmSetupSteps == DrmFailPoints["media"] \cup DrmFailPoints["plus"]

\* C1: in every run of Dispose, on either backend, each engine teardown call
\* (player_unprepare, player_destroy, UnregisterListener, DestroyPlayer) comes
\* before ReleaseDrmSession and before every call ReleaseDrmSession makes; when
\* ReleaseDrmSession is invoked the player holds no engine handle, and the
\* handle Dispose destroyed is no longer live.
C1_EngineBeforeDrm ==
  lastOp = "Dispose" =>
    /\ \A i \in Places(trace, DrmRelease) :
         /\ \A j \in Places(trace, EngineTeardown) : j < i
         /\ trace[i][1] = "ReleaseDrmSession" => trace[i][2] = NULL
    /\ \A j \in Places(trace, EngineDestroyCalls) :
         trace[j][2] \in Handles => hstate[trace[j][2]] = "destroyed"
    /\ player_ = NULL

\* A Dispose that destroyed an engine handle and released a DRM session.
C1_Witness ==
  /\ lastOp = "Dispose"
  /\ \E j \in Places(trace, EngineDestroyCalls) : trace[j][2] \in Handles
  /\ \E i \in Places(trace, {"DMGRReleaseDRMSession"}) : trace[i][3]

\* C2: whatever the sequence of Dispose calls (repeated, before Create, after
\* a Create that failed partway), no engine handle is passed to the engine's
\* destroy call after it was destroyed, and no DRM session is passed to the
\* DRM engine's release call after it was released.
C2_NoDoubleTeardown ==
  /\ "double_destroy" \notin faults
  /\ "double_release" \notin faults

\* A repeated Dispose: a handle was destroyed and a session released before,
\* and this Dispose made no destroy call and no release call.
C2_Witness ==
  /\ lastOp = "Dispose"
  /\ \E h \in Handles : hstate[h] = "destroyed"
  /\ \E x \in Sessions : sess[x] = "released"
  /\ Places(trace, EngineDestroyCalls \cup {"DMGRReleaseDRMSession"}) = {}

\* C3: once a Create on the instance has created an engine handle, every
\* further Create raises a typed failure and makes no platform call.
C3_SecondCreateRejected ==
  [][(createdOnce /\ lastOp' = "Create")
       => (lastResult' = "error" /\ trace' = <<>>)]_vars

\* C4: a SeekTo made while a continuation is pending raises a typed failure,
\* issues no seek to the engine and leaves the pending continuation as it is.
C4_SecondSeekRejected ==
  [][(on_seek_completed_ # NULL /\ lastOp' = "SeekTo")
       => /\ lastResult' = "error"
          /\ Places(trace', SeekCalls) = {}
          /\ on_seek_completed_' = on_seek_completed_]_vars

\* C5: under every interleaving of SeekTo with the engine thread's
\* OnSeekCompleted, each continuation is invoked at most once, and the clear
\* step of the callback never erases a continuation other than the one the
\* callback invoked.
C5_SeekCallbackAtomic ==
  /\ \A c \in 1..MaxSeeks : cbInvoked[c] <= 1
  /\ "erased_other" \notin faults

\* C6: no response buffer is freed twice and none is handed to
\* install_eme_key after it was freed.
C6_BufferFreedOnce ==
  /\ "double_free" \notin faults
  /\ "install_freed_buffer" \notin faults

\* C7: install_eme_key is never called on a null session handle.
C7_NoInstallOnReleasedSession ==
  "install_null_session" \notin faults

\* C8: install tasks run in the order of their challenges, and each installs
\* the session id and the response buffer of the challenge that scheduled it.
C8_InstallUsesOwnChallenge ==
  /\ \A i, j \in DOMAIN installLog :
       i < j => installLog[i].txn < installLog[j].txn
  /\ \A i \in DOMAIN installLog :
       /\ installLog[i].sid = challengeLog[installLog[i].txn].sid
       /\ installLog[i].buf = challengeLog[installLog[i].txn].buf

\* C9: a challenge whose license source, server or delegate, returned no
\* buffer or a length of zero makes OnChallengeData return an error, has no
\* install task in the idle queue and no install_eme_key call, neither by a
\* task of its own nor with its session id.
C9_EmptyResponseRejected ==
  \A k \in DOMAIN challengeLog :
    (challengeLog[k].buf = NULL \/ challengeLog[k].len = 0) =>
      /\ challengeLog[k].ret # "ok"
      /\ \A i \in DOMAIN idleq : idleq[i].txn # k
      /\ \A i \in DOMAIN installLog :
           installLog[i].txn # k /\ installLog[i].sid # challengeLog[k].sid

\* OnChallengeData returned an error for an empty response on the license
\* server path and for one on the delegate path.
C9_Witness ==
  /\ lastOp = "OnChallengeData"
  /\ lastResult = "error"
  /\ \E k \in DOMAIN challengeLog :
       /\ challengeLog[k].path = "url"
       /\ challengeLog[k].ret = "error"
       /\ challengeLog[k].buf # NULL
       /\ challengeLog[k].len = 0
  /\ \E k \in DOMAIN challengeLog :
       /\ challengeLog[k].path = "callback"
       /\ challengeLog[k].ret = "error"
       /\ challengeLog[k].buf = NULL

Sent(name) == {i \in DOMAIN events : events[i].event = name}

\* C11: a session emits at most one initialized notification, however the
\* engine's prepared callback and the listener-attach path interleave and
\* however often the prepared callback is repeated.
C11_InitializedOnce == Cardinality(Sent("initialized")) <= 1

Buffered(i) ==
  \E j \in 1..(i - 1) :
    /\ events[j].event = "bufferingStart"
    /\ \A k \in (j + 1)..(i - 1) : events[k].event # "bufferingEnd"

StartCalls == {"player_start", "Start", "Resume"}

PauseCalls == {"player_pause", "Pause"}

RateCalls == {"player_set_playback_rate", "SetPlaybackRate"}

PositionCalls == {"player_get_play_position", "GetPlayingTime"}

SizeAndDurationCalls ==
  {"player_get_duration", "GetDuration", "player_get_video_size",
   "GetVideoSize", "player_get_display_rotation"}

\* C14: Play calls the engine's start or resume only in the states ready and
\* paused; in the other states of a created engine (idle, source-ready,
\* playing) it returns normally and makes no such call.
C14_PlayNoOpOutsideReadyPaused ==
  (lastOp = "Play" /\ lastInput \in {"idle", "source_ready", "playing"})
    => (lastResult = "ok" /\ Places(trace, StartCalls) = {})

\* C15: Pause calls the engine's pause only in the state playing; in the
\* other states of a created engine (idle, source-ready, ready, paused) it
\* returns normally and makes no such call.
C15_PauseNoOpOutsidePlaying ==
  (lastOp = "Pause"
   /\ lastInput \in {"idle", "source_ready", "ready", "paused"})
    => (lastResult = "ok" /\ Places(trace, PauseCalls) = {})

\* C16: a SeekTo made while the engine is created and its state is below
\* ready raises a typed failure, makes no seek call on the engine and leaves
\* no continuation stored; a rejected continuation is never invoked.
C16_EarlySeekRejected ==
  [][/\ (/\ lastOp' = "SeekTo"
         /\ GetState(Cur, player_) \in {"idle", "source_ready"})
          => /\ lastResult' = "error"
             /\ Places(trace', SeekCalls) = {}
             /\ on_seek_completed_' = NULL
     /\ \A c \in 1..MaxSeeks :
          cbStatus'[c] = "rejected" => cbInvoked'[c] = 0]_vars

\* C17: SetPlaybackSpeed made while the engine is created and idle raises a
\* typed failure and makes no set-rate call on the engine.
C17_SpeedNeedsCreatedEngine ==
  (lastOp = "SetPlaybackSpeed" /\ lastInput = "idle")
    => (lastResult = "error" /\ Places(trace, RateCalls) = {})

\* C18: GetPosition made while the engine is created and its state is idle,
\* source-ready or ready raises a typed failure, returns nothing and does not
\* ask the engine for the playing time.
C18_PositionNeedsPlayback ==
  (lastOp = "GetPosition" /\ lastInput \in {"idle", "source_ready", "ready"})
    => /\ lastResult = "error"
       /\ ~lastOut.written
       /\ Places(trace, PositionCalls) = {}

\* C19: GetDuration and GetVideoSize made while the engine is created and
\* idle, before source-ready, raise a typed failure, do not ask the engine and
\* write no output.
C19_MetadataNeedsSource ==
  (lastOp \in {"GetDuration", "GetVideoSize"} /\ lastInput = "idle")
    => /\ lastResult = "error"
       /\ ~lastOut.written
       /\ Places(trace, SizeAndDurationCalls) = {}

\* C20: on PlusPlayer, SetLooping and SetVolume raise a typed failure in
\* every state of the session, make no platform call and change nothing of
\* the session or the engine.
C20_PlusLoopingVolumeUnsupported ==
  [][(backend = "plus" /\ lastOp' \in {"SetLooping", "SetVolume"})
       => /\ lastResult' = "error"
          /\ trace' = <<>>
          /\ UNCHANGED <<player_, is_initialized_, is_interrupted_,
                         is_buffering_, event_sink_, event_channel_,
                         on_seek_completed_, drm_manager_, drm_session_,
                         hstate, sess, seeks, events, faults>>]_vars

\* SetLooping was refused on a PlusPlayer whose engine is playing.
C20_Witness ==
  /\ backend = "plus"
  /\ lastOp = "SetLooping"
  /\ lastResult = "error"
  /\ lastInput = "playing"

\* The operations that need an engine handle.
GatedOps ==
  {"Play", "Pause", "SetPlaybackSpeed", "SeekTo", "GetPosition", "GetDuration",
   "GetVideoSize", "SetDisplayRoi"}

\* C21: a gated operation (Play, Pause, SetPlaybackSpeed, SeekTo, GetPosition,
\* GetDuration, GetVideoSize, SetDisplayRoi) invoked while the player holds no
\* engine handle returns normally or raises a typed failure, and makes no
\* engine call with the null handle as its argument.
C21_NoCallOnNullHandle ==
  [][(player_ = NULL /\ lastOp' \in GatedOps)
       => /\ lastResult' \in {"ok", "error"}
          /\ \A i \in DOMAIN trace' : trace'[i][2] # NULL]_vars

\* C22: a DrmManager never has both a license-server URL and a challenge
\* delegate configured, whichever SetChallenge variants are called on it and
\* in whichever order.
C22_OneChallengeSource ==
  ~(license_server_url_ # "" /\ challenge_callback_)

\* C23: whenever CreateDrmSession returns failure the DrmManager holds no
\* DRM session afterwards, also when registering the error callback failed
\* and the release that cleans up after it failed as well.
C23_NoSessionAfterFailedCreate ==
  (lastOp = "CreateDrmSession" /\ lastResult = "error")
    => drm_session_ = NULL

\* C24: GetDrmHandle, UpdatePsshData, SetChallenge and SecurityInitCompleteCB,
\* called while the DrmManager holds no DRM session, return failure and make
\* no call to the DRM engine.
C24_NullSessionFailsFast ==
  [][(/\ drm_session_ = NULL
      /\ lastOp' \in {"GetDrmHandle", "UpdatePsshData", "SetChallenge",
                      "SecurityInitCompleteCB"})
       => (lastResult' = "error" /\ trace' = <<>>)]_vars

ChallengeSteps ==
  <<"eme_request_key_callback", "set_playready_manifest", "Initialize">>

\* C26: SetChallenge performs its steps in the order challenge callback,
\* manifest URL, Initialize and stops at the first that fails; it returns
\* success exactly when all three succeeded, and the initialized flag
\* becomes true exactly when Initialize succeeded.
C26_SetChallengeSteps ==
  [][lastOp' = "SetChallenge"
       => /\ Len(trace') <= 3
          /\ \A i \in DOMAIN trace' :
               /\ trace'[i][1] = ChallengeSteps[i]
               /\ i < Len(trace') => trace'[i][3]
          /\ (drm_session_ = NULL) = (trace' = <<>>)
          /\ Len(trace') \in 1..2 => ~trace'[Len(trace')][3]
          /\ (lastResult' = "ok") = (Len(trace') = 3 /\ trace'[3][3])
          /\ initialized_' = (initialized_ \/ lastResult' = "ok")]_vars

\* A SetChallenge that registered the callback and the manifest and failed
\* at Initialize: it returned failure and the session is not initialized.
C26_Witness ==
  /\ lastOp = "SetChallenge"
  /\ lastResult = "error"
  /\ Len(trace) = 3
  /\ ~trace[3][3]
  /\ ~initialized_

\* C27: an engine callback that runs on after Dispose has cleared the engine
\* handle (here the play-completed callback, between its notification and
\* its Pause) raises no failure into the engine thread that called it and
\* makes no engine call.
C27_LateCallbackSwallowed ==
  (lastOp = "OnPlayCompleted" /\ player_ = NULL)
    => (lastResult = "ok" /\ trace = <<>>)

\* C28: InitMediaPlayerProxy returns success exactly when all four private
\* functions resolve through a non-null handle, and after a bind that
\* failed no function pointer that this bind resolved is left bound.
C28_BindAllOrNothing ==
  lastOp = "InitMediaPlayerProxy"
    => /\ (lastResult = "ok")
            = (lastInput.handle # NULL /\ lastInput.exports = ProxySymbolSet)
       /\ lastResult = "error"
            => \A i \in DOMAIN trace : trace[i][3] => ~slots[trace[i][2]]

EngineCreateCalls == {"player_create", "CreatePlayer"}

DisplayCalls ==
  {"player_set_ecore_wl_display", "player_set_display_mode", "SetDisplay",
   "SetDisplayMode"}

UriCalls == {"player_set_uri", "Open"}

PrepareStart == {"player_prepare_async", "PrepareAsync"}

\* Every call of the first kind in the last handler comes before every call
\* of the second kind.
Precede(first, second) ==
  \A i \in Places(trace, first), j \in Places(trace, second) : i < j

\* C29: in every Create that succeeds, on either backend, the engine is
\* created first, then come the steps of the DRM setup (if a DRM variant is
\* requested), then the display is bound, then the URI, then the prepare is
\* started: the URI is never bound before the display and the prepare never
\* starts before the DRM setup is complete.
C29_CreateOrder ==
  (lastOp = "Create" /\ lastResult = "ok")
    => /\ Precede(EngineCreateCalls,
                  DrmSetupSteps \cup DisplayCalls \cup UriCalls
                    \cup PrepareStart)
       /\ Precede(DrmSetupSteps, DisplayCalls \cup UriCalls \cup PrepareStart)
       /\ Precede(DisplayCalls, UriCalls \cup PrepareStart)
       /\ Precede(UriCalls, PrepareStart)

\* C30: OnChallengeData asks the license server, and not the delegate,
\* whenever a non-empty license-server URL is configured; it asks the
\* delegate when no URL is configured and a delegate is set; with neither
\* configured it asks nobody, returns an error and schedules no install.
C30_ChallengeSource ==
  [][/\ lastOp' = "ChallengeRequest"
          => Names(trace') = IF license_server_url_ # ""
                             THEN {"DoTransactionTZ"}
                             ELSE IF challenge_callback_
                             THEN {"challenge_callback_"}
                             ELSE {}
     /\ (lastOp' = "OnChallengeData" /\ chpc.path = "none")
          => /\ lastResult' = "error"
             /\ Places(trace', {"g_idle_add"}) = {}
             /\ idleq' = idleq
             /\ source_id_' = source_id_]_vars

\* A challenge arrived at a manager with both a URL and a delegate
\* configured and went to the license server.
C30_Witness ==
  /\ lastOp = "ChallengeRequest"
  /\ license_server_url_ # ""
  /\ challenge_callback_
  /\ Names(trace) = {"DoTransactionTZ"}


InstallCalls == {"install_eme_key"}

C32_NoBufferLeft ==
  (/\ drm_session_ = NULL
   /\ \E x \in Sessions : sess[x] = "released"
   /\ idleq = <<>>
   /\ ~chpc.active)
    => \A b \in Buffers : bufs[b] # "alloc"


\* C33: the play-completed callback first emits a completed notification
\* and makes no engine call before it; MediaPlayer then calls the engine's
\* pause exactly when the engine is in the state playing, and PlusPlayer
\* makes no engine call at all.
C33_CompletedThenPause ==
  [][/\ (lastOp' = "OnPlayCompleted" /\ lastInput' = 1)
          => /\ events' = Append(events, Notification(Cur, "completed", 0, 0, 0))
             /\ trace' = <<>>
             /\ cbpc' = (IF backend = "media" THEN "pause" ELSE "idle")
     /\ (lastOp' = "OnPlayCompleted" /\ lastInput' = 2)
          => /\ backend = "media"
             /\ (Places(trace', PauseCalls) # {})
                  = (GetState(Cur, player_) = "playing")
    ]_vars


ProxyOpenCalls == {"OpenMediaPlayerProxy"}

ProxyCloseCalls == {"CloseMediaPlayerProxy"}

\* C34: in every Create of MediaPlayer, whichever call fails, the library
\* handle OpenMediaPlayerProxy returned is passed to CloseMediaPlayerProxy
\* exactly once before Create is left, and no Dispose closes a handle again.
C34_ProxyClosedOnce ==
  /\ (lastOp = "Create" /\ backend = "media")
       => Cardinality(Places(trace, ProxyCloseCalls))
            = Cardinality({i \in Places(trace, ProxyOpenCalls) : trace[i][3]})
  /\ lastOp = "Dispose" => Places(trace, ProxyCloseCalls) = {}


\* C35: a Play or Pause of MediaPlayer whose player_get_state call reported
\* an error makes no start call and no pause call on the engine.
C35_FailedQueryNoCall ==
  (/\ backend = "media"
   /\ lastOp \in {"Play", "Pause"}
   /\ \E i \in Places(trace, {"player_get_state"}) : ~trace[i][3])
    => Places(trace, StartCalls \cup PauseCalls) = {}


\* C36: in a session that is neither interrupted nor disposed, when the
\* later of the two events (the prepared callback reporting success, a
\* listener attaching) has been handled and no engine query of its handler
\* failed, an initialized notification has been sent; the engine has reached
\* ready by then and may have been started by a Play in between.
C36_InitializedOnceReadyAndListening ==
  (/\ lastOp \in {"OnListen", "OnPrepared"}
   /\ lastResult = "ok"
   /\ \A i \in DOMAIN trace : trace[i][3]
   /\ event_sink_
   /\ Live(Cur, player_)
   /\ AtLeastReady(GetState(Cur, player_))
   /\ ~is_interrupted_
   /\ \A h \in Handles : hstate[h] # "destroyed")
    => Sent("initialized") # {}


\* C37: an interruption the engine reports while a listener is attached is
\* sent to it as an error notification, and no initialized notification
\* follows an interruption in the notification log of the session.
C37_NoInitializedAfterInterruption ==
  /\ (lastOp = "OnInterrupted" /\ event_sink_)
       => /\ events # <<>>
          /\ events[Len(events)].event = "Interrupted error"
          /\ events[Len(events)].delivered
  /\ \A i, j \in DOMAIN events :
       (i < j /\ events[i].event = "Interrupted error")
         => events[j].event # "initialized"


\* The SeekTo that has just run made a seek call the engine rejected.
SeekRefused(tr) == \E i \in Places(tr, SeekCalls) : ~tr[i][3]

\* C38: a SeekTo whose seek call the engine rejects raises a typed failure
\* and leaves no continuation stored; the continuation it had stored is
\* never invoked, then or later; and the SeekTo that follows it is not
\* turned away as already seeking: it gets as far as the engine.
C38_RefusedSeekClearsContinuation ==
  [][/\ (lastOp' = "SeekTo" /\ SeekRefused(trace'))
          => /\ lastResult' = "error"
             /\ on_seek_completed_' = NULL
             /\ cbStatus'[lastInput'] = "rejected"
     /\ (lastOp = "SeekTo" /\ SeekRefused(trace) /\ lastOp' = "SeekTo")
          => Places(trace', SeekCalls \cup {"GetState"}) # {}
     /\ \A c \in 1..MaxSeeks : cbStatus'[c] = "rejected" => cbInvoked'[c] = 0
    ]_vars

\* C39: in every reachable state of the DrmManager the initialized flag is
\* set only while the manager holds a session: a release that clears the
\* session handle leaves the flag false, so that a session created later is
\* not finalized without having been initialized.
C39_InitializedOnlyWithSession ==
  initialized_ => drm_session_ # NULL

\* C40: the stored idle-source id is non-zero exactly while a key-install
\* task is pending in the idle queue, and then names a pending task; hence
\* ReleaseDrmSession, which removes the stored id and zeroes it, leaves no
\* install task pending and never asks the idle queue to remove a task that
\* has already run.
C40_SourceIdTracksPendingTask ==
  /\ (source_id_ # 0) <=> (idleq # <<>>)
  /\ source_id_ # 0 => \E i \in DOMAIN idleq : idleq[i].id = source_id_
  /\ "remove_stale_source" \notin faults

=============================================================================
